---- MODULE Spec2Model ----
(***************************************************************************)
(* tiny-pastebin: the storage contract (internal/storage), its BoltDB      *)
(* backend (internal/storage/boltstore), its SQLite backend                *)
(* (internal/storage/sqlitestore) and the memoryStore of the httpserver    *)
(* tests.                                                                  *)
(*                                                                         *)
(* Every boltstore call runs inside one bbolt transaction (db.Update or    *)
(* db.View, single writer).  Spec, SpecBackends and SpecLife take each     *)
(* call as one atomic action; SpecTx runs the transactions of two          *)
(* goroutines statement by statement.                                      *)
(*                                                                         *)
(* Strings are sequences of bytes.  A time.Time is [ns, loc]: ns is the    *)
(* instant as nanoseconds since the Unix epoch, scaled from int64 down to  *)
(* TimeBits bits, and loc is its location.  The zero Time (year 1) lies    *)
(* before every instant an int64 of nanoseconds can represent; it is the   *)
(* instant ZeroNs.  A pointer is <<>> (nil) or <<v>>.                      *)
(***************************************************************************)
EXTENDS Integers, Sequences, FiniteSets, TLC

\* ---------------------------------------------------------------- bounds
\* width of the nanosecond timestamp (int64/uint64 in the source)
TimeBits == 3
\* number of distinct paste ids in use
NumIds == 2

TsModulus == 2 ^ TimeBits
MaxNano == 2 ^ (TimeBits - 1) - 1
MinNano == 0 - 2 ^ (TimeBits - 1)
\* the instant of the zero Time, time.Time{}
ZeroNs == MinNano - 1

\* ----------------------------------------------------------- time.Time
Locs == {"UTC", "Local"}
\* the instants the callers use: the ends of the int64 range, the Unix epoch
\* and its two neighbours
Instants == {MinNano, -1, 0, 1, MaxNano}
Times == [ns : Instants \cup {ZeroNs}, loc : Locs]
ZeroTime == [ns |-> ZeroNs, loc |-> "UTC"]

\* time.Time.IsZero: the instant is January 1, year 1, whatever the location
IsZero(t) == t.ns = ZeroNs
\* time.Time.UTC: same instant, location UTC
UTC(t) == [t EXCEPT !.loc = "UTC"]
\* time.Time.UnixNano as an int64
UnixNano(t) == t.ns
\* time.Time.After compares instants
After(t, u) == t.ns > u.ns

\* ------------------------------------------------------------- strings
\* utf8.RuneSelf: bytes below it are single-byte runes
IsASCII(b) == b < 128
\* U+FFFD, the replacement rune, in UTF-8
ReplacementRune == <<239, 191, 189>>
\* a string that is not valid UTF-8: the lone byte 0xFF
InvalidUTF8 == <<255>>

RECURSIVE ToValidUTF8(_)
\* encoding/json coerces a string to valid UTF-8: each invalid byte becomes
\* U+FFFD.  The strings used here are made of ASCII bytes, lone 0xFF bytes
\* and U+FFFD.
ToValidUTF8(s) ==
    IF s = <<>> THEN <<>>
    ELSE IF IsASCII(Head(s)) THEN <<Head(s)>> \o ToValidUTF8(Tail(s))
    ELSE IF Len(s) >= 3 /\ SubSeq(s, 1, 3) = ReplacementRune
         THEN ReplacementRune \o ToValidUTF8(SubSeq(s, 4, Len(s)))
    ELSE ReplacementRune \o ToValidUTF8(Tail(s))

\* ------------------------------------------------------- storage.Paste
\* ids as id.Generator makes them: non-empty, URL-safe ASCII
Ids == { <<96 + i>> : i \in 1 .. NumIds }

\* Paste.HasExpiration
HasExpiration(p) == ~IsZero(p.ExpiresAt)

\* the contents of the pastes the callers save
Metas ==
    { [Content |-> <<104, 105>>, Syntax |-> <<112>>,
       CreatedAt |-> [ns |-> 0, loc |-> "UTC"], PasswordHash |-> <<>>, Size |-> 2],
      [Content |-> InvalidUTF8, Syntax |-> <<103>>,
       CreatedAt |-> [ns |-> 1, loc |-> "Local"], PasswordHash |-> <<36>>, Size |-> 1] }

\* a paste as the callers build it (handleCreate, the store tests): ExpiresAt is
\* the zero Time or now.Add(d), so it carries the location of CreatedAt
MkPaste(id, m, ns) ==
    [ID |-> id, Content |-> m.Content, Syntax |-> m.Syntax, CreatedAt |-> m.CreatedAt,
     ExpiresAt |-> [ns |-> ns, loc |-> m.CreatedAt.loc],
     PasswordHash |-> m.PasswordHash, Size |-> m.Size]

Pastes == { MkPaste(id, m, ns) : id \in Ids, m \in Metas, ns \in Instants \cup {ZeroNs} }

\* --------------------------------------------------------- encoding/json
\* time.Time.MarshalJSON: RFC 3339 with nanoseconds, "Z" for UTC
MarshalTime(t) == [ns |-> t.ns, zone |-> IF t.loc = "UTC" THEN "Z" ELSE "+01:00"]
UnmarshalTime(j) == [ns |-> j.ns, loc |-> IF j.zone = "Z" THEN "UTC" ELSE "Local"]

\* json.Marshal(paste): password_hash has omitempty
Marshal(p) ==
    LET doc == [id |-> ToValidUTF8(p.ID), content |-> ToValidUTF8(p.Content),
                syntax |-> ToValidUTF8(p.Syntax),
                created_at |-> MarshalTime(p.CreatedAt),
                expires_at |-> MarshalTime(p.ExpiresAt), size |-> p.Size]
    IN  IF p.PasswordHash = <<>> THEN doc
        ELSE doc @@ [password_hash |-> ToValidUTF8(p.PasswordHash)]

\* json.Unmarshal(raw, &paste) into a zero Paste
Unmarshal(doc) ==
    [ID |-> doc.id, Content |-> doc.content, Syntax |-> doc.syntax,
     CreatedAt |-> UnmarshalTime(doc.created_at),
     ExpiresAt |-> UnmarshalTime(doc.expires_at),
     PasswordHash |-> IF "password_hash" \in DOMAIN doc THEN doc.password_hash ELSE <<>>,
     Size |-> doc.size]

\* ------------------------------------------------------------ bbolt
\* a bucket is a function from keys to values
EmptyBucket == [k \in {} |-> <<>>]
BucketPut(b, k, v) == [x \in DOMAIN b \cup {k} |-> IF x = k THEN v ELSE b[x]]
BucketDelete(b, k) == [x \in DOMAIN b \ {k} |-> b[x]]
Has(b, k) == k \in DOMAIN b

\* ---------------------------------------------------------- boltstore
\* toTimestamp: uint64(t.UTC().UnixNano()), 0 for the zero Time
toTimestamp(t) == IF IsZero(t) THEN 0 ELSE UnixNano(UTC(t)) % TsModulus

\* expireKey: the big-endian timestamp followed by the id bytes
expireKey(t, id) == <<toTimestamp(t), id>>

VARIABLES
    pastes,     \* bucket "pastes": id -> JSON document
    expires,    \* bucket "expires": expireKey -> id
    op,         \* the last call on the store and what it returned
    boltOpen,   \* bolt.DB.opened of the boltstore
    writer,     \* the goroutine that holds the writer lock of the bolt.DB
    work,       \* the buckets as the writable transaction sees them
    procs,      \* the goroutines inside db.Update: where each one stands
    rows,       \* sqlitestore, table pastes: id -> row
    sqlOpen,    \* the sql.DB of the sqlitestore is not closed
    sqlOp,      \* what the last call on the sqlitestore returned
    mem,        \* memoryStore.pastes: id -> Paste
    memOp,      \* what the last call on the memoryStore returned
    jan,        \* the goroutine of StartJanitor: where it stands, and its sweep
    jctx,       \* the context StartJanitor was given
    tickC,      \* the ticks waiting in ticker.C, a channel of capacity 1
    now,        \* time.Now()
    jlog,       \* the last record the janitor wrote to its logger
    resp,       \* the last HTTP request and the response it got
    jar,        \* the auth cookies the server has set so far
    posted,     \* id -> the content of the latest POST /pastes that was given the id
    rl,         \* Server.limiter: the RateLimiter, or nil
    arrivals    \* the requests the limiter was asked about at one instant, in order

\* the bolt.DB apart from the committed buckets
boltDB == <<boltOpen, writer, work, procs>>
boltVars == <<pastes, expires, op, boltDB>>
sqlVars == <<rows, sqlOpen, sqlOp>>
memVars == <<mem, memOp>>
janVars == <<jan, jctx, tickC, now, jlog>>
httpVars == <<resp, jar, posted>>
\* the callers of the store
limVars == <<rl, arrivals>>
callerVars == <<janVars, httpVars, limVars>>
vars == <<boltVars, sqlVars, memVars, callerVars>>

NoErr == "nil"
ErrNotFound == "paste not found"
ErrNilPaste == "paste is nil"
ErrCanceled == "context canceled"
\* bolt.ErrDatabaseNotOpen
ErrDatabaseNotOpen == "database not open"
\* database/sql: errDBClosed
ErrDBClosed == "sql: database is closed"
\* a nil pointer dereference: the goroutine panics
Panic == "panic: nil pointer dereference"

\* what errors.Is tells a caller about an error: storage.ErrNotFound and the
\* context errors are exported values; every other error is a value made on the
\* spot by errors.New or fmt.Errorf and matches nothing
ErrorKind(err) ==
    IF err = NoErr THEN "none"
    ELSE IF err = ErrNotFound THEN "NotFound"
    ELSE IF err = ErrCanceled THEN "Canceled"
    ELSE "unclassified"

Ctxs == {"live", "cancelled"}

\* a call and what it returned: its name, ctx and id; saved, the paste Save was
\* given, once written; prev, the ExpiresAt of the record Save or Delete found
\* under the id, and for Close of a store whether its database was open; before, the cutoff of DeleteExpired in UTC; err; out of Get;
\* removed of DeleteExpired.  A call that fails at entry records no arguments.
Call(name, ctx, id, saved, prev, before, err, out, removed) ==
    [name |-> name, ctx |-> ctx, id |-> id, saved |-> saved, prev |-> prev,
     before |-> before, err |-> err, out |-> out, removed |-> removed]

Failed(name, ctx, err) == Call(name, ctx, <<>>, <<>>, <<>>, <<>>, err, <<>>, 0)

\* the goroutines that call the store at the same time
Procs == {"p1", "p2"}
NoProc == "none"
\* a goroutine outside db.Update.  Inside it is blocked on the writer lock or in
\* its transaction (tx) before statement number step; name and arg are the call,
\* ctx turns "cancelled" when its deadline passes, removed is the counter of
\* DeleteExpired
Idle == [pc |-> "idle", name |-> "", arg |-> <<>>, ctx |-> "live", step |-> 0, removed |-> 0]

\* what a call on one of the other stores returned
Ret(err, out, removed) == [err |-> err, out |-> out, removed |-> removed]

\* time.Minute and the timeout of cleanOnce, in seconds
Minute == 60
SweepTimeout == 5

\* the goroutine of the janitor holds the writer lock under this name
Janitor == "janitor"
\* the janitor before StartJanitor.  Afterwards pc is "select" (at the select
\* statement), "blocked" or "tx" (inside cleanOnce, in the db.Update of
\* DeleteExpired) or "done" (returned); interval is the period of its ticker;
\* logger tells whether it has one; c is the context of cleanOnce, cutoff, step
\* and removed belong to its DeleteExpired and err is what the latest
\* DeleteExpired returned; inflight counts the calls of cleanOnce that have not
\* returned, calls the calls of cleanOnce so far (mod 2)
JanOff == [pc |-> "off", interval |-> 0, logger |-> FALSE, c |-> "live",
           cutoff |-> <<>>, step |-> 0, removed |-> 0, err |-> NoErr,
           inflight |-> 0, calls |-> 0]
\* nothing logged yet
NoLog == [level |-> "none", err |-> NoErr, count |-> 0]
\* the clock starts at the Unix epoch
Epoch == [ns |-> 0, loc |-> "Local"]

\* a request and its response: the handler and the id of the path, the auth
\* cookie and the If-None-Match header of the request (<<>>: none); the status,
\* the template rendered, the paste the response shows (<<>>: none), the body
\* of a raw response, the Location header and the cookie set (<<>>: none)
Response(handler, id, cookie, inm, status, page, shown, body, location, setCookie) ==
    [handler |-> handler, id |-> id, cookie |-> cookie, inm |-> inm, status |-> status,
     page |-> page, shown |-> shown, body |-> body, location |-> location,
     setCookie |-> setCookie]
NoResponse == Response("", <<>>, <<>>, <<>>, 0, "", <<>>, <<>>, <<>>, <<>>)

\* a nil *RateLimiter; clients: key -> clientLimiter
NoLimiter == [nil |-> TRUE, rate |-> 0, burst |-> 0, ttl |-> 0, clients |-> <<>>]

\* Open of the boltstore: both buckets exist and are empty; Open of the
\* sqlitestore: the table exists and is empty; newMemoryStore: an empty map
Init ==
    /\ pastes = EmptyBucket
    /\ expires = EmptyBucket
    /\ op = Call("Open", "live", <<>>, <<>>, <<>>, <<>>, NoErr, <<>>, 0)
    /\ boltOpen = TRUE
    /\ writer = NoProc
    /\ work = <<>>
    /\ procs = [p \in Procs |-> Idle]
    /\ rows = EmptyBucket
    /\ sqlOpen = TRUE
    /\ sqlOp = Ret(NoErr, <<>>, 0)
    /\ mem = EmptyBucket
    /\ memOp = Ret(NoErr, <<>>, 0)
    /\ jan = JanOff
    /\ jctx = "live"
    /\ tickC = 0
    /\ now = Epoch
    /\ jlog = NoLog
    /\ resp = NoResponse
    /\ jar = {}
    /\ posted = EmptyBucket
    /\ rl = NoLimiter
    /\ arrivals = <<>>

\* the ExpiresAt of the record stored under id, if any
Existing(pb, id) == IF Has(pb, id) THEN <<Unmarshal(pb[id]).ExpiresAt>> ELSE <<>>

\* SaveTx that leaves the index entry of the replaced record in place
SaveTxKeepsOldIndex(pb, eb, paste) ==
    LET pb1 == BucketPut(pb, paste.ID, Marshal(paste))
        eb2 == IF HasExpiration(paste)
               THEN BucketPut(eb, expireKey(paste.ExpiresAt, paste.ID), paste.ID)
               ELSE eb
    IN  [pastes |-> pb1, expires |-> eb2]

\* SaveTx that indexes every paste, with or without an expiry
SaveTxIndexesAll(pb, eb, paste) ==
    LET id == paste.ID
        prev == Unmarshal(pb[id])
        eb1 == IF Has(pb, id)
               THEN BucketDelete(eb, expireKey(prev.ExpiresAt, prev.ID))
               ELSE eb
    IN  [pastes |-> BucketPut(pb, id, Marshal(paste)),
         expires |-> BucketPut(eb1, expireKey(paste.ExpiresAt, paste.ID), paste.ID)]

\* the transaction body of Save, on the normalized paste
SaveTx(pb, eb, paste) ==
    LET id == paste.ID
        prev == Unmarshal(pb[id])
        eb1 == IF Has(pb, id) /\ HasExpiration(prev)
               THEN BucketDelete(eb, expireKey(prev.ExpiresAt, prev.ID))
               ELSE eb
        pb1 == BucketPut(pb, id, Marshal(paste))
        eb2 == IF HasExpiration(paste)
               THEN BucketPut(eb1, expireKey(paste.ExpiresAt, paste.ID), paste.ID)
               ELSE eb1
    IN  [pastes |-> pb1, expires |-> eb2]

\* Store.Save(ctx, paste); ptr is the *storage.Paste
Save(ctx, ptr) ==
    IF ptr = <<>> THEN
        /\ op' = Failed("Save", ctx, ErrNilPaste)
        /\ UNCHANGED <<pastes, expires, boltDB>>
    ELSE IF ctx = "cancelled" THEN
        /\ op' = Failed("Save", ctx, ErrCanceled)
        /\ UNCHANGED <<pastes, expires, boltDB>>
    ELSE IF ~boltOpen THEN
        /\ op' = Failed("Save", ctx, ErrDatabaseNotOpen)
        /\ UNCHANGED <<pastes, expires, boltDB>>
    ELSE
        LET paste == [ptr[1] EXCEPT !.CreatedAt = UTC(@), !.ExpiresAt = UTC(@)]
            tx == SaveTx(pastes, expires, paste)
        IN  /\ pastes' = tx.pastes
            /\ expires' = tx.expires
            /\ UNCHANGED boltDB
            /\ op' = Call("Save", ctx, paste.ID, ptr, Existing(pastes, paste.ID), <<>>,
                          NoErr, <<>>, 0)

\* GetTx that hides a record whose expiry is not after its creation time
GetTxHidesExpired(pb, id) ==
    IF ~Has(pb, id) THEN [out |-> <<>>, err |-> ErrNotFound]
    ELSE LET paste == Unmarshal(pb[id])
         IN  IF HasExpiration(paste) /\ ~After(paste.ExpiresAt, paste.CreatedAt)
             THEN [out |-> <<>>, err |-> ErrNotFound]
             ELSE [out |-> <<paste>>, err |-> NoErr]

\* the transaction body of Get
GetTx(pb, id) ==
    IF ~Has(pb, id) THEN [out |-> <<>>, err |-> ErrNotFound]
    ELSE [out |-> <<Unmarshal(pb[id])>>, err |-> NoErr]

\* Store.Get(ctx, id)
Get(ctx, id) ==
    /\ UNCHANGED <<pastes, expires, boltDB>>
    /\ IF ctx = "cancelled"
       THEN op' = Failed("Get", ctx, ErrCanceled)
       ELSE IF ~boltOpen
       THEN op' = Failed("Get", ctx, ErrDatabaseNotOpen)
       ELSE LET r == GetTx(pastes, id)
            IN  op' = Call("Get", ctx, id, <<>>, <<>>, <<>>, r.err, r.out, 0)

\* DeleteTx that removes the record and leaves its index entry
DeleteTxKeepsIndex(pb, eb, id) ==
    IF ~Has(pb, id) THEN [pastes |-> pb, expires |-> eb, err |-> ErrNotFound]
    ELSE [pastes |-> BucketDelete(pb, id), expires |-> eb, err |-> NoErr]

\* DeleteTx without the existence check: a missing id is deleted silently
DeleteTxNoCheck(pb, eb, id) ==
    LET eb1 == IF Has(pb, id) /\ HasExpiration(Unmarshal(pb[id]))
               THEN BucketDelete(eb, expireKey(Unmarshal(pb[id]).ExpiresAt, id))
               ELSE eb
    IN  [pastes |-> BucketDelete(pb, id), expires |-> eb1, err |-> NoErr]

\* DeleteTx that clears the index by the expiry alone: every entry of the
\* timestamp of the record goes, whatever id it names
DeleteTxByExpiry(pb, eb, id) ==
    IF ~Has(pb, id) THEN [pastes |-> pb, expires |-> eb, err |-> ErrNotFound]
    ELSE LET paste == Unmarshal(pb[id])
             ts == toTimestamp(paste.ExpiresAt)
             eb1 == IF HasExpiration(paste)
                    THEN [k \in { x \in DOMAIN eb : x[1] # ts } |-> eb[k]]
                    ELSE eb
         IN  [pastes |-> BucketDelete(pb, id), expires |-> eb1, err |-> NoErr]

\* the transaction body of Delete; a transaction that returns an error is
\* rolled back
DeleteTx(pb, eb, id) ==
    IF ~Has(pb, id) THEN [pastes |-> pb, expires |-> eb, err |-> ErrNotFound]
    ELSE LET paste == Unmarshal(pb[id])
             eb1 == IF HasExpiration(paste)
                    THEN BucketDelete(eb, expireKey(paste.ExpiresAt, paste.ID))
                    ELSE eb
         IN  [pastes |-> BucketDelete(pb, id), expires |-> eb1, err |-> NoErr]

\* Delete without the look at ctx.Done: the transaction runs whatever the context
DeleteIgnoresCtx(ctx, id) ==
    LET tx == DeleteTx(pastes, expires, id)
    IN  /\ pastes' = tx.pastes
        /\ expires' = tx.expires
        /\ UNCHANGED boltDB
        /\ op' = Call("Delete", ctx, id, <<>>, Existing(pastes, id), <<>>, tx.err, <<>>, 0)

\* Store.Delete(ctx, id)
Delete(ctx, id) ==
    IF ctx = "cancelled" THEN
        /\ op' = Failed("Delete", ctx, ErrCanceled)
        /\ UNCHANGED <<pastes, expires, boltDB>>
    ELSE IF ~boltOpen THEN
        /\ op' = Failed("Delete", ctx, ErrDatabaseNotOpen)
        /\ UNCHANGED <<pastes, expires, boltDB>>
    ELSE
        LET tx == DeleteTx(pastes, expires, id)
        IN  /\ pastes' = tx.pastes
            /\ expires' = tx.expires
            /\ UNCHANGED boltDB
            /\ op' = Call("Delete", ctx, id, <<>>, Existing(pastes, id), <<>>, tx.err,
                          <<>>, 0)

\* byte-wise order of two index keys: the 8 timestamp bytes, then the id
KeyLess(k1, k2) ==
    \/ k1[1] < k2[1]
    \/ k1[1] = k2[1] /\ \E i \in 1 .. Len(k2[2]) :
          /\ \A j \in 1 .. i - 1 : j <= Len(k1[2]) /\ k1[2][j] = k2[2][j]
          /\ (i > Len(k1[2]) \/ k1[2][i] < k2[2][i])

\* Cursor.First, and Cursor.Next once the entries before it are deleted
First(eb) == CHOOSE k \in DOMAIN eb : \A x \in DOMAIN eb \ {k} : KeyLess(k, x)

\* the smallest of a set of index keys
FirstOf(keys) == CHOOSE k \in keys : \A x \in keys \ {k} : KeyLess(k, x)

RECURSIVE ScanAll(_, _, _, _, _, _)
\* a cursor loop over the keys in rest that steps over an entry above the cutoff
\* and goes on to the end of the bucket
ScanAll(pb, eb, rest, cutoff, removed, visited) ==
    IF rest = {} THEN
        [pastes |-> pb, expires |-> eb, removed |-> removed, visited |-> visited]
    ELSE
        LET key == FirstOf(rest)
        IN  IF key[1] > cutoff THEN
                ScanAll(pb, eb, rest \ {key}, cutoff, removed, visited + 1)
            ELSE
                ScanAll(BucketDelete(pb, eb[key]), BucketDelete(eb, key), rest \ {key},
                        cutoff, removed + 1, visited + 1)

\* SweepLoop without the break at the first entry above the cutoff
SweepLoopScansAll(pb, eb, cutoff, removed, visited) ==
    ScanAll(pb, eb, DOMAIN eb, cutoff, removed, visited)

RECURSIVE SweepLoop(_, _, _, _, _)
\* the cursor loop of DeleteExpired; visited counts the entries the cursor
\* stood on
SweepLoop(pb, eb, cutoff, removed, visited) ==
    IF DOMAIN eb = {} THEN
        [pastes |-> pb, expires |-> eb, removed |-> removed, visited |-> visited]
    ELSE
        LET key == First(eb)
            ts == key[1]
        IN  IF ts > cutoff THEN
                [pastes |-> pb, expires |-> eb, removed |-> removed,
                 visited |-> visited + 1]
            ELSE
                SweepLoop(BucketDelete(pb, eb[key]), BucketDelete(eb, key), cutoff,
                          removed + 1, visited + 1)

\* the transaction body of DeleteExpired
DeleteExpiredTx(pb, eb, before) == SweepLoop(pb, eb, toTimestamp(before), 0, 0)

\* Store.DeleteExpired(ctx, before)
DeleteExpired(ctx, before) ==
    IF ctx = "cancelled" THEN
        /\ op' = Failed("DeleteExpired", ctx, ErrCanceled)
        /\ UNCHANGED <<pastes, expires, boltDB>>
    ELSE IF ~boltOpen THEN
        /\ op' = Failed("DeleteExpired", ctx, ErrDatabaseNotOpen)
        /\ UNCHANGED <<pastes, expires, boltDB>>
    ELSE
        LET tx == DeleteExpiredTx(pastes, expires, UTC(before))
        IN  /\ pastes' = tx.pastes
            /\ expires' = tx.expires
            /\ UNCHANGED boltDB
            /\ op' = Call("DeleteExpired", ctx, <<>>, <<>>, <<>>, <<UTC(before)>>, NoErr,
                          <<>>, tx.removed)

\* the receivers of Close: a nil *Store, a Store whose db is nil, and the store
\* that Open returned
Receivers == {"nil", "nodb", "store"}

\* Close that hands on the error of a database that is closed already
CloseTwiceFails(recv) ==
    /\ UNCHANGED <<pastes, expires>>
    /\ IF recv \in {"nil", "nodb"}
       THEN /\ op' = Call("Close", "none", <<>>, <<>>, <<>>, <<>>, NoErr, <<>>, 0)
            /\ UNCHANGED boltDB
       ELSE /\ boltOpen' = FALSE
            /\ UNCHANGED <<writer, work, procs>>
            /\ op' = Call("Close", "none", <<>>, <<>>, <<boltOpen>>, <<>>,
                          IF boltOpen THEN NoErr ELSE ErrDatabaseNotOpen, <<>>, 0)

\* Store.Close; bolt.DB.Close returns nil on a database that is closed already
Close(recv) ==
    /\ UNCHANGED <<pastes, expires>>
    /\ IF recv \in {"nil", "nodb"}
       THEN /\ op' = Call("Close", "none", <<>>, <<>>, <<>>, <<>>, NoErr, <<>>, 0)
            /\ UNCHANGED boltDB
       ELSE /\ boltOpen' = FALSE
            /\ UNCHANGED <<writer, work, procs>>
            /\ op' = Call("Close", "none", <<>>, <<>>, <<boltOpen>>, <<>>, NoErr, <<>>, 0)

\* --------------------------------------------------------- sqlitestore
\* nullableTime: NULL for the zero Time
nullableTime(t) == IF IsZero(t) THEN <<>> ELSE <<UTC(t)>>
\* nullString: NULL for the empty string
nullString(str) == IF str = <<>> THEN <<>> ELSE <<str>>

\* the values Save binds to the columns of the row; the driver stores the bytes
\* of a string and the instant of a time as they are
Row(paste) ==
    [content |-> paste.Content, syntax |-> paste.Syntax, created_at |-> paste.CreatedAt,
     expires_at |-> nullableTime(paste.ExpiresAt),
     password_hash |-> nullString(paste.PasswordHash), size |-> paste.Size]

\* the Paste that Get builds from a scanned row
FromRow(id, row) ==
    [ID |-> id, Content |-> row.content, Syntax |-> row.syntax,
     CreatedAt |-> UTC(row.created_at),
     ExpiresAt |-> IF row.expires_at = <<>> THEN ZeroTime ELSE UTC(row.expires_at[1]),
     PasswordHash |-> IF row.password_hash = <<>> THEN <<>> ELSE row.password_hash[1],
     Size |-> row.size]

\* sqlitestore.Store.Save: INSERT ... ON CONFLICT(id) DO UPDATE, one statement.
\* ExecContext fails on a closed sql.DB, then on a cancelled context.
SqlSave(ctx, ptr) ==
    IF ptr = <<>> THEN
        /\ sqlOp' = Ret(ErrNilPaste, <<>>, 0)
        /\ UNCHANGED <<rows, sqlOpen>>
    ELSE IF ~sqlOpen THEN
        /\ sqlOp' = Ret(ErrDBClosed, <<>>, 0)
        /\ UNCHANGED <<rows, sqlOpen>>
    ELSE IF ctx = "cancelled" THEN
        /\ sqlOp' = Ret(ErrCanceled, <<>>, 0)
        /\ UNCHANGED <<rows, sqlOpen>>
    ELSE
        LET paste == [ptr[1] EXCEPT !.CreatedAt = UTC(@), !.ExpiresAt = UTC(@)]
        IN  /\ rows' = BucketPut(rows, paste.ID, Row(paste))
            /\ UNCHANGED sqlOpen
            /\ sqlOp' = Ret(NoErr, <<>>, 0)

\* sqlitestore.Store.Get
SqlGet(ctx, id) ==
    /\ UNCHANGED <<rows, sqlOpen>>
    /\ IF ~sqlOpen THEN sqlOp' = Ret(ErrDBClosed, <<>>, 0)
       ELSE IF ctx = "cancelled" THEN sqlOp' = Ret(ErrCanceled, <<>>, 0)
       ELSE IF ~Has(rows, id) THEN sqlOp' = Ret(ErrNotFound, <<>>, 0)
       ELSE sqlOp' = Ret(NoErr, <<FromRow(id, rows[id])>>, 0)

\* sqlitestore.Store.Delete: DELETE ... WHERE id = ?
SqlDelete(ctx, id) ==
    IF ~sqlOpen THEN
        /\ sqlOp' = Ret(ErrDBClosed, <<>>, 0)
        /\ UNCHANGED <<rows, sqlOpen>>
    ELSE IF ctx = "cancelled" THEN
        /\ sqlOp' = Ret(ErrCanceled, <<>>, 0)
        /\ UNCHANGED <<rows, sqlOpen>>
    ELSE IF ~Has(rows, id) THEN
        /\ sqlOp' = Ret(ErrNotFound, <<>>, 0)
        /\ UNCHANGED <<rows, sqlOpen>>
    ELSE
        /\ rows' = BucketDelete(rows, id)
        /\ UNCHANGED sqlOpen
        /\ sqlOp' = Ret(NoErr, <<>>, 0)

\* the rows that match expires_at IS NOT NULL AND expires_at <= ?
SqlExpired(tbl, before) ==
    { id \in DOMAIN tbl :
         tbl[id].expires_at # <<>> /\ ~After(tbl[id].expires_at[1], before) }

\* sqlitestore.Store.DeleteExpired
SqlDeleteExpired(ctx, before) ==
    IF ~sqlOpen THEN
        /\ sqlOp' = Ret(ErrDBClosed, <<>>, 0)
        /\ UNCHANGED <<rows, sqlOpen>>
    ELSE IF ctx = "cancelled" THEN
        /\ sqlOp' = Ret(ErrCanceled, <<>>, 0)
        /\ UNCHANGED <<rows, sqlOpen>>
    ELSE
        LET gone == SqlExpired(rows, UTC(before))
        IN  /\ rows' = [id \in DOMAIN rows \ gone |-> rows[id]]
            /\ UNCHANGED sqlOpen
            /\ sqlOp' = Ret(NoErr, <<>>, Cardinality(gone))

\* sqlitestore.Store.Close; sql.DB.Close returns nil on a DB that is closed
\* already
SqlClose(recv) ==
    /\ UNCHANGED rows
    /\ sqlOp' = Ret(NoErr, <<>>, 0)
    /\ sqlOpen' = IF recv \in {"nil", "nodb"} THEN sqlOpen ELSE FALSE

\* --------------------------------------------------------- memoryStore
\* memoryStore.Save: stores a copy of *paste; the context is not looked at and a
\* nil paste is dereferenced
MemSave(ctx, ptr) ==
    IF ptr = <<>> THEN
        /\ memOp' = Ret(Panic, <<>>, 0)
        /\ UNCHANGED mem
    ELSE
        /\ mem' = BucketPut(mem, ptr[1].ID, ptr[1])
        /\ memOp' = Ret(NoErr, <<>>, 0)

\* memoryStore.Get
MemGet(ctx, id) ==
    /\ UNCHANGED mem
    /\ IF ~Has(mem, id) THEN memOp' = Ret(ErrNotFound, <<>>, 0)
       ELSE memOp' = Ret(NoErr, <<mem[id]>>, 0)

\* memoryStore.Delete
MemDelete(ctx, id) ==
    IF ~Has(mem, id) THEN
        /\ memOp' = Ret(ErrNotFound, <<>>, 0)
        /\ UNCHANGED mem
    ELSE
        /\ mem' = BucketDelete(mem, id)
        /\ memOp' = Ret(NoErr, <<>>, 0)

\* the pastes the loop of memoryStore.DeleteExpired deletes
MemExpired(m, before) ==
    { id \in DOMAIN m : ~IsZero(m[id].ExpiresAt) /\ ~After(m[id].ExpiresAt, before) }

\* memoryStore.DeleteExpired
MemDeleteExpired(ctx, before) ==
    LET gone == MemExpired(mem, before)
    IN  /\ mem' = [id \in DOMAIN mem \ gone |-> mem[id]]
        /\ memOp' = Ret(NoErr, <<>>, Cardinality(gone))

\* ------------------------------------------- boltstore, step by step
\* the other stores stay as they are
OnlyBolt == UNCHANGED <<sqlVars, memVars, callerVars>>

\* an error of bbolt inside the transaction: a Put, a Delete or the commit failed
ErrTx == "bbolt: write failed"

\* Store.Save, Delete or DeleteExpired up to db.Update: the context is live at
\* the entry, the call now waits for the writer lock of the database
Enter(p, name, arg) ==
    /\ procs[p].pc = "idle"
    /\ procs' = [procs EXCEPT ![p] = [Idle EXCEPT !.pc = "blocked", !.name = name,
                                                  !.arg = arg]]
    /\ UNCHANGED <<pastes, expires, op, boltOpen, writer, work>>
    /\ OnlyBolt

\* the deadline of the context passes, or its owner cancels it, while the call
\* is blocked behind the transaction of the other goroutine
Cancel(p) ==
    /\ procs[p].pc = "blocked" /\ procs[p].ctx = "live"
    /\ writer # NoProc
    /\ procs' = [procs EXCEPT ![p].ctx = "cancelled"]
    /\ UNCHANGED <<pastes, expires, op, boltOpen, writer, work>>
    /\ OnlyBolt

\* db.Update, DB.Begin(true): the call gets the writer lock once no other
\* goroutine holds it; the transaction starts from the committed buckets.
\* Nothing here looks at the context.
Begin(p) ==
    /\ procs[p].pc = "blocked" /\ writer = NoProc
    /\ writer' = p
    /\ work' = <<[pastes |-> pastes, expires |-> expires]>>
    /\ procs' = [procs EXCEPT ![p].pc = "tx"]
    /\ UNCHANGED <<pastes, expires, op, boltOpen>>
    /\ OnlyBolt

\* the statements of the function Save hands to db.Update, before statement
\* number step: 0 remove the index entry of the record found, 1 put the record,
\* 2 put its index entry, 3 return nil
SaveStep(w, ptr, step) ==
    LET paste == [ptr[1] EXCEPT !.CreatedAt = UTC(@), !.ExpiresAt = UTC(@)]
        id == paste.ID
    IN  IF step = 0 THEN
            IF Has(w.pastes, id) /\ HasExpiration(Unmarshal(w.pastes[id]))
            THEN LET prev == Unmarshal(w.pastes[id])
                 IN  [w EXCEPT !.expires =
                         BucketDelete(@, expireKey(prev.ExpiresAt, prev.ID))]
            ELSE w
        ELSE IF step = 1 THEN
            [w EXCEPT !.pastes = BucketPut(@, id, Marshal(paste))]
        ELSE
            IF HasExpiration(paste)
            THEN [w EXCEPT !.expires = BucketPut(@, expireKey(paste.ExpiresAt, id), id)]
            ELSE w

\* the statements of the function of Delete, once the record is found: 0 remove
\* the index entry, 1 remove the record, 2 return nil
DeleteStep(w, id, step) ==
    IF step = 0 THEN
        LET paste == Unmarshal(w.pastes[id])
        IN  IF HasExpiration(paste)
            THEN [w EXCEPT !.expires =
                     BucketDelete(@, expireKey(paste.ExpiresAt, paste.ID))]
            ELSE w
    ELSE [w EXCEPT !.pastes = BucketDelete(@, id)]

\* the cursor of DeleteExpired stands on an entry at or below the cutoff
SweepGoesOn(w, before) ==
    DOMAIN w.expires # {} /\ First(w.expires)[1] <= toTimestamp(UTC(before))

\* one pass of the loop of DeleteExpired, in two statements: 0 remove the
\* record the entry names, 1 remove the entry (and count it)
SweepStep(w, step) ==
    LET key == First(w.expires)
    IN  IF step = 0 THEN [w EXCEPT !.pastes = BucketDelete(@, w.expires[key])]
        ELSE [w EXCEPT !.expires = BucketDelete(@, key)]

\* the function handed to db.Update is about to return nil
Returns(pr, w) ==
    \/ pr.name = "Save" /\ pr.step = 3
    \/ pr.name = "Delete" /\ pr.step = 2
    \/ pr.name = "DeleteExpired" /\ pr.step = 0 /\ ~SweepGoesOn(w, pr.arg[1])

\* the goroutine that holds the writer lock runs the next statement of its
\* function on the buckets of its transaction
Step(p) ==
    /\ writer = p /\ ~Returns(procs[p], work[1])
    /\ ~(procs[p].name = "Delete" /\ ~Has(work[1].pastes, procs[p].arg))
    /\ LET pr == procs[p]
           w == work[1]
       IN  IF pr.name = "Save" THEN
               /\ work' = <<SaveStep(w, pr.arg, pr.step)>>
               /\ procs' = [procs EXCEPT ![p].step = @ + 1]
           ELSE IF pr.name = "Delete" THEN
               /\ work' = <<DeleteStep(w, pr.arg, pr.step)>>
               /\ procs' = [procs EXCEPT ![p].step = @ + 1]
           ELSE
               /\ work' = <<SweepStep(w, pr.step)>>
               /\ procs' = [procs EXCEPT ![p].step = 1 - @, ![p].removed = @ + pr.step]
    /\ UNCHANGED <<pastes, expires, op, boltOpen, writer>>
    /\ OnlyBolt

\* Outcome that keeps the writes of a transaction whose function failed
OutcomeKeepsWrites(committed, w, err) == w

\* db.Update at its end: it commits the buckets of the transaction when the
\* function returned nil and rolls them back when it returned an error
Outcome(committed, w, err) == IF err = NoErr THEN w ELSE committed

\* db.Update ends with the error err of the function or of the commit; the
\* call returns err (DeleteExpired: with its counter, whatever err is)
Finish(p, err) ==
    LET after == Outcome([pastes |-> pastes, expires |-> expires], work[1], err)
    IN  /\ pastes' = after.pastes
        /\ expires' = after.expires
        /\ writer' = NoProc
        /\ work' = <<>>
        /\ procs' = [procs EXCEPT ![p] = Idle]
        /\ op' = Call(procs[p].name, "live", <<>>, <<>>, <<>>, <<>>, err, <<>>,
                      procs[p].removed)
        /\ UNCHANGED boltOpen
        /\ OnlyBolt

\* the function returned nil and the transaction is committed
Commit(p) == writer = p /\ Returns(procs[p], work[1]) /\ Finish(p, NoErr)

\* Delete finds no record under the id: the function returns ErrNotFound
Missing(p) ==
    /\ writer = p /\ procs[p].name = "Delete" /\ procs[p].step = 0
    /\ ~Has(work[1].pastes, procs[p].arg)
    /\ Finish(p, ErrNotFound)

\* the statement the transaction is at, a Put or a Delete on a bucket or the
\* commit itself, fails
Fail(p) == writer = p /\ Finish(p, ErrTx)

\* ------------------------------------------------------------- janitor
\* the janitor works on the boltstore, the store of the default build
OnlyJanitor == UNCHANGED <<sqlVars, memVars, httpVars, limVars>>

\* the intervals handed to StartJanitor, in seconds
Intervals == {0 - 1, 0, 1, SweepTimeout, Minute}

\* the instants the clock shows: time.Now() never lies before the Unix epoch
ClockInstants == { ns \in Instants : ns >= 0 }

\* StartJanitor up to the go statement: a non-positive interval becomes a
\* minute, the ticker is created, the goroutine starts at its select
StartJanitor(interval, logger) ==
    /\ jan.pc = "off"
    /\ jan' = [jan EXCEPT !.pc = "select",
                          !.interval = IF interval <= 0 THEN Minute ELSE interval,
                          !.logger = logger]
    /\ UNCHANGED <<jctx, tickC, now, jlog, boltVars>>
    /\ OnlyJanitor

\* time passes
Elapse ==
    /\ \E ns \in ClockInstants : ns > now.ns /\ now' = [now EXCEPT !.ns = ns]
    /\ UNCHANGED <<jan, jctx, tickC, jlog, boltVars>>
    /\ OnlyJanitor

\* the ticker fires: the tick waits in ticker.C until the goroutine receives
\* it; a tick that finds the channel full is dropped.  A stopped ticker does not fire.
Tick ==
    /\ jan.pc \in {"select", "blocked", "tx"}
    /\ tickC = 0
    /\ tickC' = 1
    /\ UNCHANGED <<jan, jctx, now, jlog, boltVars>>
    /\ OnlyJanitor

\* the owner of the context of StartJanitor cancels it; the context of a
\* cleanOnce under way is derived from it and is cancelled with it
CancelCtx ==
    /\ jctx = "live"
    /\ jctx' = "cancelled"
    /\ jan' = IF jan.pc \in {"blocked", "tx"} THEN [jan EXCEPT !.c = "cancelled"] ELSE jan
    /\ UNCHANGED <<tickC, now, jlog, boltVars>>
    /\ OnlyJanitor

\* the goroutine receiving while a sweep of its own is still under way, as if
\* the loop ran "go cleanOnce(...)"
AtSelectOrSweeping(j) == j.pc \in {"select", "blocked", "tx"}

\* the goroutine stands at its select statement: cleanOnce is an ordinary call
\* inside the loop, so the goroutine is back at the select only once it returned
AtSelect(j) == j.pc = "select"

\* case <-ctx.Done(): the goroutine returns and the deferred ticker.Stop runs
Done ==
    /\ AtSelect(jan) /\ jctx = "cancelled"
    /\ jan' = [jan EXCEPT !.pc = "done"]
    /\ UNCHANGED <<jctx, tickC, now, jlog, boltVars>>
    /\ OnlyJanitor

\* what cleanOnce writes to the logger once DeleteExpired returned: the error,
\* or the count when something was removed; without a logger nothing
Logged(log, j, err, removed) ==
    IF ~j.logger THEN log
    ELSE IF err # NoErr THEN [level |-> "error", err |-> err, count |-> 0]
    ELSE IF removed > 0 THEN [level |-> "info", err |-> NoErr, count |-> removed]
    ELSE log

\* a janitor that gives up after a failed sweep
ReturnedQuitsOnError(j, err) ==
    [j EXCEPT !.pc = IF err = NoErr THEN "select" ELSE "done", !.c = "live",
              !.cutoff = <<>>, !.step = 0, !.removed = 0, !.err = err,
              !.inflight = @ - 1]

\* DeleteExpired has returned err and cleanOnce returns, whatever err is: the
\* goroutine is back at its select
Returned(j, err) ==
    [j EXCEPT !.pc = "select", !.c = "live", !.cutoff = <<>>, !.step = 0,
              !.removed = 0, !.err = err, !.inflight = @ - 1]

\* a DeleteExpired that does not look at its context
EntryErrorNone(ctx) == NoErr

\* Store.DeleteExpired before db.Update: the error of a context that is
\* already cancelled
EntryError(ctx) == IF ctx = "cancelled" THEN ErrCanceled ELSE NoErr

\* case <-ticker.C: cleanOnce derives its context c from ctx and calls
\* DeleteExpired(c, time.Now()).  DeleteExpired returns the error of a context
\* that is already cancelled; otherwise it enters db.Update and waits for the
\* writer lock.
CleanOnce ==
    /\ AtSelect(jan) /\ tickC = 1
    /\ tickC' = 0
    /\ IF EntryError(jctx) # NoErr
       THEN /\ jan' = Returned([jan EXCEPT !.inflight = @ + 1, !.calls = 1 - @],
                                 EntryError(jctx))
            /\ jlog' = Logged(jlog, jan, EntryError(jctx), 0)
       ELSE /\ jan' = [jan EXCEPT !.pc = "blocked", !.c = jctx, !.cutoff = <<now>>,
                                  !.step = 0, !.removed = 0,
                                  !.inflight = @ + 1, !.calls = 1 - @]
            /\ jlog' = jlog
    /\ UNCHANGED <<jctx, now, boltVars>>
    /\ OnlyJanitor

\* the five seconds of c pass while DeleteExpired is under way, waiting behind
\* the transaction of a request or inside its own; nothing inside db.Update
\* looks at c
Timeout ==
    /\ jan.pc \in {"blocked", "tx"} /\ jan.c = "live"
    /\ writer # NoProc
    /\ jan' = [jan EXCEPT !.c = "cancelled"]
    /\ UNCHANGED <<jctx, tickC, now, jlog, boltVars>>
    /\ OnlyJanitor

\* db.Update of the janitor's DeleteExpired gets the writer lock
JanitorBegin ==
    /\ jan.pc = "blocked" /\ writer = NoProc
    /\ writer' = Janitor
    /\ work' = <<[pastes |-> pastes, expires |-> expires]>>
    /\ jan' = [jan EXCEPT !.pc = "tx"]
    /\ UNCHANGED <<pastes, expires, op, boltOpen, procs, jctx, tickC, now, jlog>>
    /\ OnlyJanitor

\* the loop of the janitor's DeleteExpired is over: the cursor is past the
\* last entry or on an entry above the cutoff
SweepOver(j, w) == j.step = 0 /\ ~SweepGoesOn(w, j.cutoff[1])

\* the next statement of the loop of the janitor's DeleteExpired
JanitorStep ==
    /\ writer = Janitor /\ ~SweepOver(jan, work[1])
    /\ work' = <<SweepStep(work[1], jan.step)>>
    /\ jan' = [jan EXCEPT !.step = 1 - @, !.removed = @ + jan.step]
    /\ UNCHANGED <<pastes, expires, op, boltOpen, writer, procs, jctx, tickC, now, jlog>>
    /\ OnlyJanitor

\* db.Update of the janitor ends with err, DeleteExpired returns and cleanOnce
\* logs; the result goes nowhere else
JanitorFinish(err) ==
    LET after == Outcome([pastes |-> pastes, expires |-> expires], work[1], err)
    IN  /\ pastes' = after.pastes
        /\ expires' = after.expires
        /\ writer' = NoProc
        /\ work' = <<>>
        /\ jan' = Returned(jan, err)
        /\ jlog' = Logged(jlog, jan, err, jan.removed)
        /\ UNCHANGED <<op, boltOpen, procs, jctx, tickC, now>>
        /\ OnlyJanitor

\* the sweep of the janitor commits
JanitorCommit == writer = Janitor /\ SweepOver(jan, work[1]) /\ JanitorFinish(NoErr)

\* a statement of the sweep of the janitor, or its commit, fails
JanitorFail == writer = Janitor /\ JanitorFinish(ErrTx)

\* ---------------------------------------------------------- httpserver
\* the server works on the boltstore with requests whose context is live
OnlyServer == UNCHANGED <<sqlVars, memVars, janVars>>

\* Config.MaxBytes, the largest content handleCreate accepts
MaxBytes == 2

\* syntaxLabels: the syntaxes handleCreate accepts, here "p" and "g"
syntaxWhitelist == {<<112>>, <<103>>}
\* isAllowedSyntax that lets every syntax through
isAllowedSyntaxAny(v) == TRUE
isAllowedSyntax(v) == v \in syntaxWhitelist

\* expireMap: the durations of the expire choices, in steps of the clock
expireMap == [e \in {"10m", "7d", "never"} |->
                 IF e = "10m" THEN 1 ELSE IF e = "7d" THEN 2 ELSE 0]
defaultExpire == "7d"

\* strings.TrimSpace
RECURSIVE TrimLeft(_)
TrimLeft(str) == IF str # <<>> /\ str[1] = 32 THEN TrimLeft(Tail(str)) ELSE str
RECURSIVE TrimRight(_)
TrimRight(str) ==
    IF str # <<>> /\ str[Len(str)] = 32 THEN TrimRight(SubSeq(str, 1, Len(str) - 1))
    ELSE str
TrimSpace(str) == TrimRight(TrimLeft(str))

\* security.HashPassword: an empty password has the empty hash; otherwise the
\* encoded Argon2id hash, "$..." followed by what stands for salt and key.  It
\* tells one password from another.
HashPassword(password) == IF password = <<>> THEN <<>> ELSE <<36>> \o password

\* decodeHash fails: the encoded hash has not the six parts
ErrHashFormat == "invalid hash format"

\* security.VerifyPassword
VerifyPassword(encoded, password) ==
    IF encoded = <<>> THEN [ok |-> password = <<>>, err |-> NoErr]
    ELSE IF Len(encoded) < 2 \/ encoded[1] # 36 THEN [ok |-> FALSE, err |-> ErrHashFormat]
    ELSE [ok |-> Tail(encoded) = password, err |-> NoErr]

\* Server.signValue: the HMAC-SHA256 of the id under the secret of the server;
\* nobody without the secret can make it
signValue(id) == <<"hmac", id>>
\* a cookie value made up by a client
Forged == <<"forged">>

\* Server.verifySignature
verifySignature(id, sig) == sig = signValue(id)

\* hasAuth that takes any cookie with the right name
hasAuthByName(cookie, id) == cookie # <<>> /\ cookie[1].name = id

\* Server.hasAuth: the request has a cookie named for the id (authCookieName)
\* and its value is the signature of the id
hasAuth(cookie, id) ==
    cookie # <<>> /\ cookie[1].name = id /\ verifySignature(id, cookie[1].value)

\* etagFor: the SHA-256 of the content
etagFor(content) == <<"sha256", content>>

\* fetchPaste that returns whatever the store has, expired or not
fetchPasteKeepsExpired(got, t) ==
    IF got.err # NoErr THEN [out |-> <<>>, err |-> got.err]
    ELSE IF got.out = <<>> THEN [out |-> <<>>, err |-> ErrNotFound]
    ELSE [out |-> got.out, err |-> NoErr]

\* Server.fetchPaste once store.Get returned got, at time t
fetchPaste(got, t) ==
    IF got.err # NoErr THEN [out |-> <<>>, err |-> got.err]
    ELSE IF got.out = <<>> THEN [out |-> <<>>, err |-> ErrNotFound]
    ELSE IF IsZero(got.out[1].ExpiresAt) THEN [out |-> got.out, err |-> NoErr]
    ELSE IF After(t, got.out[1].ExpiresAt) THEN [out |-> <<>>, err |-> ErrNotFound]
    ELSE [out |-> got.out, err |-> NoErr]

\* the response of a handler when fetchPaste failed: notFound or serverError
FetchFailed(handler, id, cookie, inm, err) ==
    Response(handler, id, cookie, inm, IF err = ErrNotFound THEN 404 ELSE 500, "error",
             <<>>, <<>>, <<>>, <<>>)

\* POST /pastes: Server.handleCreate with what r.ParseForm returned, the form
\* values and the id that idGen.Generate returns
handleCreate(parseErr, content, syntax, expireIn, password, id) ==
    LET expire == IF expireIn = "" THEN defaultExpire ELSE expireIn
        contentSize == Len(content)
        bad == \/ parseErr
               \/ contentSize = 0 \/ contentSize > MaxBytes
               \/ ~isAllowedSyntax(syntax) \/ expire \notin DOMAIN expireMap
        hashed == IF TrimSpace(password) # <<>> THEN HashPassword(password) ELSE <<>>
        t == UTC(now)
        paste == [ID |-> id, Content |-> content, Syntax |-> syntax, CreatedAt |-> t,
                  ExpiresAt |-> IF expireMap[expire] > 0
                                THEN [t EXCEPT !.ns = @ + expireMap[expire]]
                                ELSE ZeroTime,
                  PasswordHash |-> hashed, Size |-> contentSize]
    IN  /\ ~bad => now.ns + expireMap[expire] <= MaxNano
        /\ IF bad
           THEN /\ resp' = Response("create", <<>>, <<>>, <<>>, 400, "index", <<>>, <<>>,
                                     <<>>, <<>>)
                /\ UNCHANGED <<boltVars, jar, posted>>
           ELSE /\ Save("live", <<paste>>)
                /\ IF op'.err = NoErr
                   THEN /\ resp' = Response("create", <<>>, <<>>, <<>>, 303, "", <<>>, <<>>,
                                             <<id>>, <<>>)
                        /\ posted' = BucketPut(posted, id, content)
                   ELSE /\ resp' = Response("create", <<>>, <<>>, <<>>, 500, "error", <<>>,
                                             <<>>, <<>>, <<>>)
                        /\ posted' = posted
                /\ UNCHANGED jar
        /\ OnlyServer

\* GET /p/{id}: Server.handleView
handleView(id, cookie) ==
    /\ Get("live", id)
    /\ LET f == fetchPaste(op', now)
       IN  resp' = IF f.err # NoErr THEN FetchFailed("view", id, cookie, <<>>, f.err)
                   ELSE IF f.out[1].PasswordHash # <<>> /\ ~hasAuth(cookie, f.out[1].ID)
                   THEN Response("view", id, cookie, <<>>, 200, "password", <<>>, <<>>,
                                 <<>>, <<>>)
                   ELSE Response("view", id, cookie, <<>>, 200, "view", f.out, <<>>, <<>>,
                                 <<>>)
    /\ UNCHANGED <<jar, posted>>
    /\ OnlyServer

\* POST /p/{id}: Server.handlePassword with the password of the form
handlePassword(id, password) ==
    /\ Get("live", id)
    /\ LET f == fetchPaste(op', now)
           v == VerifyPassword(f.out[1].PasswordHash, password)
           cookie == [name |-> id, value |-> signValue(id)]
       IN  IF f.err # NoErr THEN
               resp' = FetchFailed("password", id, <<>>, <<>>, f.err) /\ jar' = jar
           ELSE IF f.out[1].PasswordHash = <<>> THEN
               /\ resp' = Response("password", id, <<>>, <<>>, 303, "", <<>>, <<>>, <<id>>,
                                   <<>>)
               /\ jar' = jar
           ELSE IF v.err # NoErr THEN
               /\ resp' = Response("password", id, <<>>, <<>>, 500, "error", <<>>, <<>>,
                                   <<>>, <<>>)
               /\ jar' = jar
           ELSE IF ~v.ok THEN
               /\ resp' = Response("password", id, <<>>, <<>>, 401, "password", <<>>, <<>>,
                                   <<>>, <<>>)
               /\ jar' = jar
           ELSE
               /\ resp' = Response("password", id, <<>>, <<>>, 303, "", <<>>, <<>>, <<id>>,
                                   <<cookie>>)
               /\ jar' = jar \cup {cookie}
    /\ UNCHANGED posted
    /\ OnlyServer

\* GET /p/{id}/raw: Server.handleRaw; inm is the If-None-Match header
handleRaw(id, cookie, inm) ==
    /\ Get("live", id)
    /\ LET f == fetchPaste(op', now)
       IN  resp' = IF f.err # NoErr THEN FetchFailed("raw", id, cookie, inm, f.err)
                   ELSE IF f.out[1].PasswordHash # <<>> /\ ~hasAuth(cookie, f.out[1].ID)
                   THEN FetchFailed("raw", id, cookie, inm, ErrNotFound)
                   ELSE IF inm # <<>> /\ inm[1] = etagFor(f.out[1].Content)
                   THEN Response("raw", id, cookie, inm, 304, "", <<>>, <<>>, <<>>, <<>>)
                   ELSE Response("raw", id, cookie, inm, 200, "", f.out,
                                 <<f.out[1].Content>>, <<>>, <<>>)
    /\ UNCHANGED <<jar, posted>>
    /\ OnlyServer

\* GET /p/{id}/qr: Server.handleQR; the image holds the URL of the paste
handleQR(id, cookie) ==
    /\ Get("live", id)
    /\ LET f == fetchPaste(op', now)
       IN  resp' = IF f.err # NoErr THEN FetchFailed("qr", id, cookie, <<>>, f.err)
                   ELSE IF f.out[1].PasswordHash # <<>> /\ ~hasAuth(cookie, f.out[1].ID)
                   THEN FetchFailed("qr", id, cookie, <<>>, ErrNotFound)
                   ELSE Response("qr", id, cookie, <<>>, 200, "png", f.out, <<>>, <<>>,
                                 <<>>)
    /\ UNCHANGED <<jar, posted>>
    /\ OnlyServer

\* the auth cookie a client can send with a request for an id: none, or one
\* named for the id whose value the client made up or the server has set
Sendable(v) == IF v \in {<<>>, <<Forged>>} THEN TRUE ELSE \E c \in jar : c.value = v[1]
Named(id, v) == IF v = <<>> THEN <<>> ELSE <<[name |-> id, value |-> v[1]]>>
\* ------------------------------------------------------- rate limiter
\* the largest burst a limiter is built with, and the most requests the
\* clients send at one instant
MaxBurst == 2
MaxArrivals == MaxBurst + 2

\* the client keys: none, the key that stands for none, and an address
Keys == {"", "unknown", "1.2.3.4"}
\* rate.Limit, in tokens per step of the clock; burst; ttl, in steps of the clock
Rates == {0, 1}
Bursts == 0 .. MaxBurst
Ttls == {0, 1}

\* rate.NewLimiter: a token bucket that starts full
NewLimiter(r, b) == [limit |-> r, burst |-> b, tokens |-> b, last |-> 0]

\* rate.Limiter.advance: the tokens of the bucket at time t, at most burst
advance(lim, t) ==
    LET tokens == lim.tokens + lim.limit * (t - lim.last)
    IN  IF tokens > lim.burst THEN lim.burst ELSE tokens

\* the tokens a request at time t finds in the bucket (at limit 0 the limiter
\* counts its burst down)
Available(lim, t) == IF lim.limit = 0 THEN lim.burst ELSE advance(lim, t)

\* rate.Limiter.Allow at time t: takes one token if there is one
LimiterAllow(lim, t) ==
    IF lim.limit = 0
    THEN IF lim.burst >= 1 THEN [lim |-> [lim EXCEPT !.burst = @ - 1], ok |-> TRUE]
                           ELSE [lim |-> lim, ok |-> FALSE]
    ELSE LET tokens == advance(lim, t) - 1
         IN  IF 1 <= lim.burst /\ tokens >= 0
             THEN [lim |-> [lim EXCEPT !.last = t, !.tokens = tokens], ok |-> TRUE]
             ELSE [lim |-> lim, ok |-> FALSE]

\* the key Allow files a request under
ClientKey(key) == IF key = "" THEN "unknown" ELSE key

\* the clientLimiter Allow uses for the key: the one of the map, or a new one
Entry(l, key) ==
    IF ClientKey(key) \in DOMAIN l.clients THEN l.clients[ClientKey(key)]
    ELSE [limiter |-> NewLimiter(l.rate, l.burst), lastSeen |-> 0]

\* Allow that does not put the new clientLimiter into the map
AllowForgetsEntry(l, key, t) ==
    IF l.nil THEN [rl |-> l, allowed |-> TRUE]
    ELSE LET r == LimiterAllow(Entry(l, key).limiter, t)
             put == [x \in DOMAIN l.clients |->
                        IF x = ClientKey(key) THEN [limiter |-> r.lim, lastSeen |-> t]
                        ELSE l.clients[x]]
             kept == IF l.ttl > 0 THEN { x \in DOMAIN put : ~(t - put[x].lastSeen > l.ttl) }
                     ELSE DOMAIN put
         IN  [rl |-> [l EXCEPT !.clients = [x \in kept |-> put[x]]], allowed |-> r.ok]

\* RateLimiter.Allow at time t: the limiter after the call, and the answer
Allow(l, key, t) ==
    IF l.nil THEN [rl |-> l, allowed |-> TRUE]
    ELSE LET r == LimiterAllow(Entry(l, key).limiter, t)
             put == [x \in DOMAIN l.clients \cup {ClientKey(key)} |->
                        IF x = ClientKey(key) THEN [limiter |-> r.lim, lastSeen |-> t]
                        ELSE l.clients[x]]
             kept == IF l.ttl > 0 THEN { x \in DOMAIN put : ~(t - put[x].lastSeen > l.ttl) }
                     ELSE DOMAIN put
         IN  [rl |-> [l EXCEPT !.clients = [x \in kept |-> put[x]]], allowed |-> r.ok]

\* NewRateLimiter, given to the server before it serves its first request
NewRateLimiter(r, burst, ttl) ==
    /\ rl.nil /\ resp = NoResponse
    /\ rl' = [nil |-> FALSE, rate |-> r, burst |-> burst, ttl |-> ttl, clients |-> <<>>]
    /\ UNCHANGED <<boltVars, sqlVars, memVars, janVars, httpVars, arrivals>>

\* the requests of the present instant the limiter was asked about so far
Present == IF arrivals # <<>> /\ arrivals[1].at # now.ns THEN <<>> ELSE arrivals

\* RateLimitMiddleware around the handler next, for a request with the client
\* key that keyFunc gives.  Without a limiter the handler is all there is.
RateLimitMiddleware(key, next) ==
    IF rl.nil THEN next /\ UNCHANGED limVars
    ELSE LET a == Allow(rl, key, now.ns)
         IN  /\ Len(Present) < MaxArrivals
             /\ rl' = a.rl
             /\ arrivals' = Append(Present,
                                   [key |-> key, at |-> now.ns, ok |-> a.allowed,
                                    tokens |-> Available(Entry(rl, key).limiter, now.ns)])
             /\ IF a.allowed THEN next
                ELSE /\ resp' = Response("ratelimit", <<>>, <<>>, <<>>, 429, "", <<>>,
                                         <<>>, <<>>, <<>>)
                     /\ UNCHANGED <<boltVars, jar, posted>>
                     /\ OnlyServer

\* the routes of Server.routes, each behind the middleware; a client sends the
\* auth cookie it can have
PostPastes(key, f, e, id) ==
    RateLimitMiddleware(key, handleCreate(f.parseErr, f.content, f.syntax, e, f.password,
                                          id))
GetView(key, id, v) ==
    Sendable(v) /\ RateLimitMiddleware(key, handleView(id, Named(id, v)))
PostPassword(key, id, pw) == RateLimitMiddleware(key, handlePassword(id, pw))
GetRaw(key, id, v, inm) ==
    Sendable(v) /\ RateLimitMiddleware(key, handleRaw(id, Named(id, v), inm))
GetQR(key, id, v) == Sendable(v) /\ RateLimitMiddleware(key, handleQR(id, Named(id, v)))

\* ------------------------------------------------------ specifications
\* a call whose context is already cancelled returns before it looks at its
\* other arguments (Save: at all but the nil check), so one argument stands for all
AnyPaste == CHOOSE p \in Pastes : TRUE

\* the calls on the boltstore alone
BoltSave(ctx, ptr) == Save(ctx, ptr) /\ OnlyBolt
BoltGet(ctx, id) == Get(ctx, id) /\ OnlyBolt
BoltDelete(ctx, id) == Delete(ctx, id) /\ OnlyBolt
BoltDeleteExpired(ctx, before) == DeleteExpired(ctx, before) /\ OnlyBolt

\* the boltstore alone, open for good, one call after the other
Next ==
    \/ \E ptr \in {<<>>} \cup { <<p>> : p \in Pastes } : BoltSave("live", ptr)
    \/ \E id \in Ids : BoltGet("live", id)
    \/ \E id \in Ids : BoltDelete("live", id)
    \/ \E before \in Times : BoltDeleteExpired("live", before)
    \/ \E ptr \in {<<>>, <<AnyPaste>>} : BoltSave("cancelled", ptr)
    \/ BoltGet("cancelled", AnyPaste.ID)
    \/ BoltDelete("cancelled", AnyPaste.ID)
    \/ BoltDeleteExpired("cancelled", ZeroTime)

Spec == Init /\ [][Next]_vars

\* the three stores side by side: every call goes to each of them
BackendsSave(ctx, ptr) ==
    Save(ctx, ptr) /\ SqlSave(ctx, ptr) /\ MemSave(ctx, ptr) /\ UNCHANGED callerVars
BackendsGet(ctx, id) ==
    Get(ctx, id) /\ SqlGet(ctx, id) /\ MemGet(ctx, id) /\ UNCHANGED callerVars
BackendsDelete(ctx, id) ==
    Delete(ctx, id) /\ SqlDelete(ctx, id) /\ MemDelete(ctx, id) /\ UNCHANGED callerVars
BackendsDeleteExpired(ctx, before) ==
    DeleteExpired(ctx, before) /\ SqlDeleteExpired(ctx, before)
       /\ MemDeleteExpired(ctx, before) /\ UNCHANGED callerVars

\* the pastes and cutoffs of the side-by-side runs: no expiry and an expiry on
\* either side of the Unix epoch; cutoffs at the epoch and next to it
BackendPastes == { p \in Pastes : p.ExpiresAt.ns \in {ZeroNs, -1, 1} }
BackendCutoffs == { t \in Times : t.ns \in {-1, 0, 1} }

NextBackends ==
    \/ \E ptr \in {<<>>} \cup { <<p>> : p \in BackendPastes } : BackendsSave("live", ptr)
    \/ \E id \in Ids : BackendsGet("live", id)
    \/ \E id \in Ids : BackendsDelete("live", id)
    \/ \E before \in BackendCutoffs : BackendsDeleteExpired("live", before)
    \/ \E ptr \in {<<>>, <<AnyPaste>>} : BackendsSave("cancelled", ptr)
    \/ BackendsGet("cancelled", AnyPaste.ID)
    \/ BackendsDelete("cancelled", AnyPaste.ID)
    \/ BackendsDeleteExpired("cancelled", ZeroTime)

SpecBackends == Init /\ [][NextBackends]_vars

\* the boltstore and the sqlitestore from Open to Close and after it
OnlyStores == UNCHANGED <<memVars, callerVars>>
LifeSave(ctx, ptr) == Save(ctx, ptr) /\ SqlSave(ctx, ptr) /\ OnlyStores
LifeGet(ctx, id) == Get(ctx, id) /\ SqlGet(ctx, id) /\ OnlyStores
LifeDelete(ctx, id) == Delete(ctx, id) /\ SqlDelete(ctx, id) /\ OnlyStores
LifeDeleteExpired(ctx, before) ==
    DeleteExpired(ctx, before) /\ SqlDeleteExpired(ctx, before) /\ OnlyStores
LifeClose(recv) == Close(recv) /\ SqlClose(recv) /\ OnlyStores

NextLife ==
    \/ \E ptr \in {<<>>} \cup { <<p>> : p \in BackendPastes } : LifeSave("live", ptr)
    \/ \E id \in Ids : LifeGet("live", id)
    \/ \E id \in Ids : LifeDelete("live", id)
    \/ \E before \in BackendCutoffs : LifeDeleteExpired("live", before)
    \/ \E ptr \in {<<>>, <<AnyPaste>>} : LifeSave("cancelled", ptr)
    \/ LifeGet("cancelled", AnyPaste.ID)
    \/ LifeDelete("cancelled", AnyPaste.ID)
    \/ LifeDeleteExpired("cancelled", ZeroTime)
    \/ \E recv \in Receivers : LifeClose(recv)

SpecLife == Init /\ [][NextLife]_vars

\* two goroutines on one boltstore, statement by statement.  They use the ids a
\* and b, for each id two records that differ in every field, one of them with
\* an expiry, and a cutoff at that expiry.
TxIds == { id \in Ids : id[1] <= 98 }
TxPastes ==
    { p \in Pastes : /\ p.ID \in TxIds
                     /\ \/ p.PasswordHash = <<>> /\ p.ExpiresAt.ns = 1
                        \/ p.PasswordHash # <<>> /\ IsZero(p.ExpiresAt) }
TxCutoffs == { t \in Times : t.ns = 1 /\ t.loc = "UTC" }

NextTx ==
    \/ \E p \in Procs, paste \in TxPastes : Enter(p, "Save", <<paste>>)
    \/ \E p \in Procs, id \in TxIds : Enter(p, "Delete", id)
    \/ \E p \in Procs, before \in TxCutoffs : Enter(p, "DeleteExpired", <<before>>)
    \/ \E p \in Procs : Cancel(p)
    \/ \E p \in Procs : Begin(p)
    \/ \E p \in Procs : Step(p)
    \/ \E p \in Procs : Commit(p)
    \/ \E p \in Procs : Missing(p)
    \/ \E p \in Procs : Fail(p)
    \/ \E id \in TxIds : BoltGet("live", id)

SpecTx == Init /\ [][NextTx]_vars

\* the janitor next to a request that saves: the goroutine of the request and
\* the pastes it saves, with an expiry before the epoch, after it, or none
Requests == {"p1"}
JanitorPastes ==
    { p \in TxPastes : p.ID = <<97>> } \cup
    { MkPaste(<<97>>, CHOOSE m \in Metas : m.PasswordHash = <<>>, 0 - 1) }

NextJanitor ==
    \/ \E i \in Intervals, l \in BOOLEAN : StartJanitor(i, l)
    \/ Elapse
    \/ Tick
    \/ CancelCtx
    \/ Done
    \/ CleanOnce
    \/ Timeout
    \/ JanitorBegin
    \/ JanitorStep
    \/ JanitorCommit
    \/ JanitorFail
    \/ \E p \in Requests, paste \in JanitorPastes : Enter(p, "Save", <<paste>>)
    \/ \E p \in Requests : Begin(p)
    \/ \E p \in Requests : Step(p)
    \/ \E p \in Requests : Commit(p)

SpecJanitor == Init /\ [][NextJanitor]_vars

\* what the scheduling gives: the ticker keeps firing while it runs; a select
\* with a ready case proceeds, and chooses among several ready cases at
\* random, so none is passed over for ever; a goroutine inside its transaction
\* keeps running; a goroutine waiting for the writer lock gets it in the end
\* (sync.Mutex hands the lock to a waiter that starves)
FairJanitor ==
    /\ WF_vars(Tick)
    /\ WF_vars(CleanOnce)
    /\ WF_vars(Done)
    /\ SF_vars(JanitorBegin)
    /\ WF_vars(JanitorStep)
    /\ WF_vars(JanitorCommit)
    /\ \A p \in Requests : SF_vars(Begin(p)) /\ WF_vars(Step(p)) /\ WF_vars(Commit(p))

SpecJanitorFair == SpecJanitor /\ FairJanitor

\* the forms of POST /pastes that r.ParseForm accepts
Form(content, syntax, password) ==
    [parseErr |-> FALSE, content |-> content, syntax |-> syntax, password |-> password]
\* a body r.ParseForm returns an error for (a wrong escape, a body over the
\* limit of the MaxBytesReader), with the values it had parsed before
Unparsable(f) == [f EXCEPT !.parseErr = TRUE]
\* the If-None-Match headers: none, or the ETag of a content
Etags == {<<>>, <<etagFor(<<104, 105>>)>>}

\* the server, clients without passwords and the sweeps of the janitor.  The
\* forms: a content, a content that is not UTF-8, and the forms handleCreate
\* turns down: no content, too much of it, a syntax it does not know, a body
\* it cannot parse; the expire choices are none (the default), never and a wrong one
OpenForms ==
    { Form(<<104, 105>>, <<112>>, <<>>), Form(InvalidUTF8, <<112>>, <<>>),
      Form(<<>>, <<112>>, <<>>), Form([i \in 1 .. MaxBytes + 1 |-> 104], <<112>>, <<>>),
      Form(<<104, 105>>, <<120>>, <<>>),
      Unparsable(Form(<<104, 105>>, <<112>>, <<>>)) }
Expires == {"", "never", "2w"}

\* the one client of a server that was given no limiter
Client == "1.2.3.4"

NextHTTP ==
    \/ \E f \in OpenForms, e \in Expires, id \in TxIds : PostPastes(Client, f, e, id)
    \/ \E id \in TxIds : GetView(Client, id, <<>>)
    \/ \E id \in TxIds, inm \in Etags : GetRaw(Client, id, <<>>, inm)
    \/ BoltDeleteExpired("live", now)
    \/ Elapse

SpecHTTP == Init /\ [][NextHTTP]_vars

\* the server and clients with passwords and cookies.  The forms: no password,
\* a blank one, a real one; the expire choices are none (the default) and never
Secret == <<112, 119>>
AuthForms ==
    { Form(<<104, 105>>, <<112>>, pw) : pw \in {<<>>, <<32>>, Secret} }
Passwords == {<<>>, Secret, <<110>>}
\* the auth cookie values a client can send with a request: none, or one the
\* client made up or the server has set, for this id or for another
CookieValues == {<<>>, <<Forged>>} \cup { <<signValue(id)>> : id \in TxIds }

NextAuth ==
    \/ \E f \in AuthForms, e \in {"", "never"}, id \in TxIds : PostPastes(Client, f, e, id)
    \/ \E id \in TxIds, v \in CookieValues : GetView(Client, id, v)
    \/ \E id \in TxIds, pw \in Passwords : PostPassword(Client, id, pw)
    \/ \E id \in TxIds, v \in CookieValues : GetRaw(Client, id, v, <<>>)
    \/ \E id \in TxIds, v \in CookieValues : GetQR(Client, id, v)
    \/ Elapse

SpecAuth == Init /\ [][NextAuth]_vars

\* a server with a rate limiter, or none, and clients that post one form
LimitedId == CHOOSE id \in TxIds : TRUE
NextLimiter ==
    \/ \E r \in Rates, burst \in Bursts, ttl \in Ttls : NewRateLimiter(r, burst, ttl)
    \/ \E key \in Keys :
          PostPastes(key, Form(<<104, 105>>, <<112>>, <<>>), "never", LimitedId)
    \/ Elapse

SpecLimiter == Init /\ [][NextLimiter]_vars

\* ------------------------------------------------------------ properties
\* what Get would return for id in the given primary bucket
Stored(pb, id) == Unmarshal(pb[id])
\* the index keys whose value names id
KeysOf(eb, id) == { k \in DOMAIN eb : eb[k] = id }
\* the records a step removed from the primary bucket
Gone == DOMAIN pastes \ DOMAIN pastes'
\* the step is a call of DeleteExpired that returned no error
Swept == op'.name = "DeleteExpired" /\ op'.err = NoErr
\* a time lies at or before another, as instants
NotAfter(t, u) == t.ns <= u.ns

\* C1: every stored record with an expiry has exactly one index entry, keyed by
\* its expiresAt and id; a record without an expiry has none; no index entry
\* names an id that is not in the primary bucket.
C1_IndexConsistent ==
    /\ \A id \in DOMAIN pastes :
          LET p == Stored(pastes, id)
          IN  KeysOf(expires, id) =
                 IF HasExpiration(p) THEN {<<p.ExpiresAt.ns % TsModulus, id>>} ELSE {}
    /\ \A k \in DOMAIN expires : expires[k] \in DOMAIN pastes /\ k[2] = expires[k]

\* C1 witness: a Save has replaced a record that had an expiry, and the store
\* holds a record with an expiry and one without
C1_Witness ==
    /\ op.name = "Save" /\ op.err = NoErr
    /\ op.prev # <<>> /\ ~IsZero(op.prev[1])
    /\ \E id \in DOMAIN pastes : HasExpiration(Stored(pastes, id))
    /\ \E id \in DOMAIN pastes : ~HasExpiration(Stored(pastes, id))

\* C2 (as claimed): after a Save that replaces expiry e1 of an id by no expiry or
\* by another expiry e2, a DeleteExpired(c) with c >= e1 removes the record only
\* if e2 is set and e2 <= c; otherwise the record stays, Get returns it and it is
\* not counted.
C2_Original ==
    [][ ( /\ op.name = "Save" /\ op.err = NoErr
          /\ op.prev # <<>> /\ ~IsZero(op.prev[1])
          /\ op.saved[1].ExpiresAt.ns # op.prev[1].ns
          /\ Swept
          /\ NotAfter(op.prev[1], op'.before[1]) )
        => LET e2 == op.saved[1].ExpiresAt
           IN  \/ ~IsZero(e2) /\ NotAfter(e2, op'.before[1])
               \/ /\ GetTx(pastes', op.id) = GetTx(pastes, op.id)
                  /\ GetTx(pastes', op.id).err = NoErr
                  /\ op'.removed = Cardinality(Gone) ]_vars

\* C3 (as claimed): DeleteExpired(before) removes every record whose expiresAt is
\* set and <= before, and returns the number of records it removed.
C3_Original ==
    [][ Swept =>
          /\ \A id \in DOMAIN pastes :
                LET p == Stored(pastes, id)
                IN  HasExpiration(p) /\ NotAfter(p.ExpiresAt, op'.before[1])
                       => id \in Gone
          /\ op'.removed = Cardinality(Gone) ]_vars

\* C4 (as claimed): DeleteExpired(before) keeps every record whose expiresAt is
\* set and after before; Get returns it unchanged.
C4_Original ==
    [][ Swept =>
          \A id \in DOMAIN pastes :
             LET p == Stored(pastes, id)
             IN  HasExpiration(p) /\ After(p.ExpiresAt, op'.before[1])
                    => GetTx(pastes', id) = GetTx(pastes, id) ]_vars

\* C5: a stored record without an expiry changes or disappears only by a Save or
\* a Delete of its id; no DeleteExpired, whatever the cutoff, touches it.
C5_NoExpiryImmune ==
    [][ \A id \in DOMAIN pastes :
           ( /\ ~HasExpiration(Stored(pastes, id))
             /\ GetTx(pastes', id) # GetTx(pastes, id) )
           => op'.name \in {"Save", "Delete"} /\ op'.id = id /\ op'.err = NoErr ]_vars

\* C5 witness: a sweep with the latest cutoff removed a record and a record
\* without an expiry is still stored
C5_Witness ==
    /\ op.name = "DeleteExpired" /\ op.err = NoErr /\ op.removed > 0
    /\ op.before[1].ns = MaxNano
    /\ \E id \in DOMAIN pastes : ~HasExpiration(Stored(pastes, id))

\* C6 (as claimed): after a DeleteExpired(t) that succeeded, a DeleteExpired(t')
\* with t' <= t returns 0 and changes neither bucket.
C6_Original ==
    [][ ( /\ op.name = "DeleteExpired" /\ op.err = NoErr
          /\ Swept
          /\ NotAfter(op'.before[1], op.before[1]) )
        => op'.removed = 0 /\ UNCHANGED <<pastes, expires>> ]_vars

\* two pastes are equal in every field, times compared as instants
SamePaste(p, q) ==
    /\ p.ID = q.ID /\ p.Content = q.Content /\ p.Syntax = q.Syntax
    /\ p.CreatedAt.ns = q.CreatedAt.ns /\ p.ExpiresAt.ns = q.ExpiresAt.ns
    /\ p.PasswordHash = q.PasswordHash /\ p.Size = q.Size

\* C7 (as claimed): a Get of the id right after Save(record) returns a record
\* equal to the saved one in every field.
C7_Original ==
    [][ ( /\ op.name = "Save" /\ op.err = NoErr
          /\ op'.name = "Get" /\ op'.ctx = "live" /\ op'.id = op.id )
        => op'.err = NoErr /\ SamePaste(op'.out[1], op.saved[1]) ]_vars

\* C8 (as claimed): after a Save(r2) over a stored record of the same id, the
\* store holds one record for the id and Get returns r2 in every field.
C8_Original ==
    [][ ( /\ op'.name = "Save" /\ op'.err = NoErr /\ op'.prev # <<>> )
        => /\ DOMAIN pastes' = DOMAIN pastes
           /\ GetTx(pastes', op'.id).err = NoErr
           /\ SamePaste(GetTx(pastes', op'.id).out[1], op'.saved[1]) ]_vars

\* C9: a Delete of a stored id removes the record and its index entry together:
\* Get fails with NotFound, and a DeleteExpired with any cutoff finds no entry of
\* the id, so it counts exactly the records it removes and none is the id.
C9_DeleteRemovesIndex ==
    [][ ( op'.name = "Delete" /\ op'.err = NoErr )
        => /\ GetTx(pastes', op'.id) = [out |-> <<>>, err |-> ErrNotFound]
           /\ KeysOf(expires', op'.id) = {}
           /\ \A k \in DOMAIN expires' : k[2] # op'.id
           /\ \A before \in Times :
                 LET tx == DeleteExpiredTx(pastes', expires', UTC(before))
                 IN  /\ tx.removed = Cardinality(DOMAIN pastes' \ DOMAIN tx.pastes)
                     /\ tx.removed = Cardinality(DOMAIN expires' \ DOMAIN tx.expires) ]_vars

\* C9 witness: a Delete has removed a record that had an expiry
C9_Witness ==
    /\ op.name = "Delete" /\ op.err = NoErr
    /\ op.prev # <<>> /\ ~IsZero(op.prev[1])

\* C10: a Delete of an id that is not stored fails with NotFound and changes
\* neither bucket.
C10_DeleteMissing ==
    [][ ( op'.name = "Delete" /\ op'.ctx = "live" /\ op'.id \notin DOMAIN pastes )
        => op'.err = ErrNotFound /\ UNCHANGED <<pastes, expires>> ]_vars

\* C10 witness: a Delete failed with NotFound on a store that holds a record
\* with an expiry
C10_Witness ==
    /\ op.name = "Delete" /\ op.err = ErrNotFound
    /\ \E id \in DOMAIN pastes : HasExpiration(Stored(pastes, id))

\* C11: a Get of an id returns the stored record exactly when the id is in the
\* primary bucket and fails with NotFound otherwise; the expiry of the record
\* plays no part, and Get changes neither bucket.
C11_GetReturnsStored ==
    [][ ( op'.name = "Get" /\ op'.ctx = "live" )
        => /\ UNCHANGED <<pastes, expires>>
           /\ IF op'.id \in DOMAIN pastes
              THEN op'.err = NoErr /\ op'.out = <<Stored(pastes, op'.id)>>
              ELSE op'.err = ErrNotFound /\ op'.out = <<>> ]_vars

\* C11 witness: Get returned a record whose expiry is the earliest instant there
\* is, long before the record was created
C11_Witness ==
    /\ op.name = "Get" /\ op.err = NoErr
    /\ HasExpiration(op.out[1]) /\ op.out[1].ExpiresAt.ns = MinNano
    /\ After(op.out[1].CreatedAt, op.out[1].ExpiresAt)

\* C14 (as claimed): of two stored records with expiries t1 < t2, the index key
\* of the first sorts strictly before the index key of the second, byte by
\* byte, also for expiries before the Unix epoch; the keys of two records with
\* the same expiry differ.
C14_Original ==
    \A id1 \in DOMAIN pastes, id2 \in DOMAIN pastes :
       \A k1 \in KeysOf(expires, id1), k2 \in KeysOf(expires, id2) :
          LET t1 == Stored(pastes, id1).ExpiresAt
              t2 == Stored(pastes, id2).ExpiresAt
          IN  /\ t1.ns < t2.ns => KeyLess(k1, k2)
              /\ (t1.ns = t2.ns /\ id1 # id2) => k1 # k2

\* C15: from any store, a DeleteExpired with any cutoff visits at most one index
\* entry more than it removes; when it visits one more, that entry is the first
\* one left and lies above the cutoff.
C15_SweepStopsEarly ==
    \A before \in Times :
       LET tx == DeleteExpiredTx(pastes, expires, UTC(before))
       IN  /\ tx.removed = Cardinality(DOMAIN expires \ DOMAIN tx.expires)
           /\ tx.visited <= tx.removed + 1
           /\ tx.visited = tx.removed + 1
                 => /\ DOMAIN tx.expires # {}
                    /\ First(tx.expires)[1] > toTimestamp(UTC(before))

\* C15 witness: a sweep removed nothing and left two index entries, so it
\* stopped on the first of them
C15_Witness ==
    /\ op.name = "DeleteExpired" /\ op.err = NoErr /\ op.removed = 0
    /\ Cardinality(DOMAIN expires) >= 2

\* C16 (as claimed): Save(nil) fails with an error of the kind InvalidArgument,
\* which a caller can tell from NotFound and from an internal error, and
\* changes neither bucket.
C16_Original ==
    [][ ( op'.name = "Save" /\ op'.err = ErrNilPaste )
        => /\ ErrorKind(op'.err) = "InvalidArgument"
           /\ ErrorKind(op'.err) \notin {"none", "NotFound", "unclassified"}
           /\ UNCHANGED <<pastes, expires>> ]_vars

\* C17 (as claimed): in each of the three stores a call with a context that is
\* already cancelled fails with the cancellation error and leaves the store as
\* it was.
C17_Original ==
    [][ op'.ctx = "cancelled"
        => /\ op'.err = ErrCanceled /\ UNCHANGED <<pastes, expires>>
           /\ sqlOp'.err = ErrCanceled /\ UNCHANGED rows
           /\ memOp'.err = ErrCanceled /\ UNCHANGED mem ]_vars

\* C17: in the boltstore and in the sqlitestore a call with a context that is
\* already cancelled fails and changes neither the records nor the index; the
\* error is the cancellation error, but for a Save of nil it is the nil-paste
\* error.
C17_CancelledFails ==
    [][ op'.ctx = "cancelled"
        => /\ op'.err \in {ErrCanceled, ErrNilPaste} /\ sqlOp'.err = op'.err
           /\ op'.err = ErrNilPaste => op'.name = "Save" /\ memOp'.err = Panic
           /\ UNCHANGED <<pastes, expires, rows>> ]_vars

\* C17 witness: a Save of a paste with a cancelled context failed in the
\* boltstore and the sqlitestore, which hold a record with an expiry
C17_Witness ==
    /\ op.name = "Save" /\ op.ctx = "cancelled"
    /\ op.err = ErrCanceled /\ sqlOp.err = ErrCanceled
    /\ \E id \in DOMAIN pastes : HasExpiration(Stored(pastes, id)) /\ id \in DOMAIN rows

\* two calls returned the same: the same error, the same record, the same count
SameRet(r1, r2) ==
    /\ r1.err = r2.err /\ r1.removed = r2.removed
    /\ Len(r1.out) = Len(r2.out)
    /\ r1.out # <<>> => SamePaste(r1.out[1], r2.out[1])

\* C20 (as claimed): after every sequence of calls made on the boltstore, the
\* sqlitestore and the memoryStore alike, the three have returned the same
\* result for the last call and hold the same records.
C20_Original ==
    /\ SameRet(Ret(op.err, op.out, op.removed), sqlOp)
    /\ SameRet(sqlOp, memOp)
    /\ DOMAIN pastes = DOMAIN rows /\ DOMAIN rows = DOMAIN mem
    /\ \A id \in DOMAIN pastes \cap DOMAIN rows \cap DOMAIN mem :
          /\ SamePaste(Stored(pastes, id), FromRow(id, rows[id]))
          /\ SamePaste(FromRow(id, rows[id]), mem[id])

\* C19: Close returns nil and leaves the records alone, whatever came before
\* it; on a nil store, on a store without a database and on a store that is
\* closed already it changes nothing at all.
C19_CloseRepeatable ==
    [][ op'.name = "Close"
        => /\ op'.err = NoErr /\ sqlOp'.err = NoErr
           /\ UNCHANGED <<pastes, expires, rows>>
           /\ (op'.prev = <<>> \/ ~boltOpen) => UNCHANGED boltOpen
           /\ (op'.prev = <<>> \/ ~sqlOpen) => UNCHANGED sqlOpen ]_vars

\* C19 witness: the two stores, which hold a record, were closed and have now
\* been closed once more
C19_Witness ==
    /\ op.name = "Close" /\ op.err = NoErr /\ op.prev = <<FALSE>>
    /\ ~boltOpen /\ ~sqlOpen
    /\ DOMAIN pastes # {} /\ DOMAIN rows # {}
    /\ sqlOp.err = NoErr

\* the step ends the db.Update of goroutine p
Ends(p) == procs[p].pc = "tx" /\ procs'[p].pc = "idle"

\* what the call of a goroutine does to the buckets when it runs alone and
\* nothing fails
Whole(pr, pb, eb) ==
    IF pr.name = "Save"
    THEN SaveTx(pb, eb, [pr.arg[1] EXCEPT !.CreatedAt = UTC(@), !.ExpiresAt = UTC(@)])
    ELSE IF pr.name = "Delete" THEN DeleteTx(pb, eb, pr.arg)
    ELSE DeleteExpiredTx(pb, eb, UTC(pr.arg[1]))

\* C12: with two goroutines running Save, Delete and DeleteExpired statement by
\* statement, the committed buckets change only in the step that ends a call
\* without error, and then by the whole effect of that call; a call that fails
\* at any statement leaves them as they were; what a Get or the next
\* transaction finds is never a record without its index entry.
C12_Indivisible ==
    [][ /\ \A p \in Procs :
              Ends(p) => IF op'.err = NoErr
                         THEN LET tx == Whole(procs[p], pastes, expires)
                              IN  pastes' = tx.pastes /\ expires' = tx.expires
                         ELSE UNCHANGED <<pastes, expires>>
        /\ (\A p \in Procs : ~Ends(p)) => UNCHANGED <<pastes, expires>>
        /\ C1_IndexConsistent'
        /\ op'.name = "Get" => op'.out = GetTx(pastes, op'.id).out ]_vars

\* C12 witness: a DeleteExpired has failed after it had removed a record and
\* its index entry in its transaction; the record is in the committed buckets,
\* and the other goroutine waits for the writer lock
C12_Witness ==
    /\ op.name = "DeleteExpired" /\ op.err = ErrTx /\ op.removed > 0
    /\ \E id \in DOMAIN pastes : HasExpiration(Stored(pastes, id))
    /\ \E p \in Procs : procs[p].pc = "blocked"

\* C13 (as claimed): when a Save commits, the record stored under its id equals
\* the record of that Save in every field, and the index holds the entry of
\* that record and no other entry of the id, whatever other Save, Delete or sweep
\* ran beside it.
C13_Original ==
    [][ \A p \in Procs :
           ( Ends(p) /\ procs[p].name = "Save" /\ op'.err = NoErr )
           => LET r == procs[p].arg[1]
              IN  /\ r.ID \in DOMAIN pastes'
                  /\ SamePaste(Stored(pastes', r.ID), r)
                  /\ KeysOf(expires', r.ID) =
                        IF HasExpiration(r) THEN {expireKey(r.ExpiresAt, r.ID)} ELSE {} ]_vars

\* C18 (as claimed): a call whose context was cancelled while it waited for the
\* writer lock ends with an error and without any effect on the buckets.
C18_Original ==
    [][ \A p \in Procs :
           ( Ends(p) /\ procs[p].ctx = "cancelled" )
           => op'.err # NoErr /\ UNCHANGED <<pastes, expires>> ]_vars

\* C26 (as claimed): whatever interval StartJanitor was given, the timeout of a
\* sweep is strictly shorter than the interval of the ticker the janitor uses.
C26_Original == jan.pc # "off" => SweepTimeout < jan.interval

\* C24 (as claimed): when a tick fires while a sweep of the janitor is under
\* way, that tick may start a second sweep next to the first: the janitor can
\* take the tick and call cleanOnce while its earlier cleanOnce has not returned.
C24_Original ==
    ( jan.inflight = 1 /\ tickC = 1 /\ jctx = "live" ) => ENABLED CleanOnce

\* C24 (amended): the sweeps of one janitor never overlap.  At most one call of
\* cleanOnce is under way, exactly while the goroutine is inside DeleteExpired,
\* and a tick that fires meanwhile waits in the channel of the ticker.
C24_NoOverlap ==
    /\ jan.inflight <= 1
    /\ jan.inflight = 1 <=> jan.pc \in {"blocked", "tx"}

\* a tick fired while the sweep of the janitor was inside its transaction and
\* had already removed a record there; the tick waits
C24_Witness ==
    /\ jan.pc = "tx" /\ jan.inflight = 1 /\ jan.removed > 0
    /\ tickC = 1 /\ jctx = "live"

\* C25 (as claimed): a sweep of the janitor that is still under way when its
\* timeout passes is abandoned: from then on it does not start its transaction,
\* and when it ends it leaves the committed buckets as they were.
C25_Original ==
    [][ ( jan.pc \in {"blocked", "tx"} /\ jan.c = "cancelled" /\ jctx = "live" )
           => /\ ~( jan.pc = "blocked" /\ jan'.pc = "tx" )
              /\ ( writer = Janitor /\ writer' # Janitor )
                    => UNCHANGED <<pastes, expires>> ]_vars

\* a call of cleanOnce ends in this step
SweepEnds == jan'.inflight = 0 /\ ( jan.inflight = 1 \/ jan'.calls # jan.calls )

\* C22: a failed sweep never stops the janitor.  When DeleteExpired returns an
\* error the janitor logs it (if it has a logger) and is back at its select,
\* the buckets are as before, and the calls and results of the requests are
\* untouched; and afterwards the janitor calls DeleteExpired again, unless its
\* context is cancelled first.
C22_FailedSweepGoesOn ==
    /\ [][ ( SweepEnds /\ jan'.err # NoErr )
              => /\ jan'.pc = "select"
                 /\ UNCHANGED <<pastes, expires, op, procs>>
                 /\ jan.logger => jlog' = [level |-> "error", err |-> jan'.err, count |-> 0]
                 /\ ~jan.logger => jlog' = jlog ]_vars
    /\ \A k \in {0, 1} :
          ( jan.pc = "select" /\ jan.err # NoErr /\ jan.calls = k )
             ~> ( jan.calls # k \/ jctx = "cancelled" )

\* a sweep failed inside its transaction and the next tick has started the
\* next sweep, which is inside its transaction
C22_Witness ==
    jan.err = ErrTx /\ jan.pc = "tx" /\ jctx = "live" /\ jlog.level = "error"

\* C23: the janitor fires only until its context is cancelled.  Once the
\* context of a started janitor is cancelled its goroutine returns in the end
\* and stays returned; and a cleanOnce that starts after the cancellation
\* fails with the error of the context and changes nothing in the store, not
\* even starting a transaction.
C23_StopsAtCancel ==
    /\ ( jctx = "cancelled" /\ jan.pc # "off" ) ~> ( jan.pc = "done" )
    /\ [][ /\ jan.pc = "done" => jan' = jan
           /\ ( jctx = "cancelled" /\ jan'.calls # jan.calls )
                 => /\ jan'.pc = "select" /\ jan'.err = ErrCanceled
                    /\ UNCHANGED <<pastes, expires, writer, work>> ]_vars

\* the janitor has returned after cancellation; its last cleanOnce failed on
\* the cancelled context and a record whose expiry has passed is still stored
C23_Witness ==
    /\ jctx = "cancelled" /\ jan.pc = "done" /\ jan.err = ErrCanceled
    /\ \E k \in DOMAIN expires : k[1] <= toTimestamp(now)

\* the record r is stored as it was saved, its expiry has passed on the clock,
\* and the janitor runs
Overdue(r) ==
    /\ jan.pc \notin {"off", "done"}
    /\ Has(pastes, r.ID) /\ Stored(pastes, r.ID).ExpiresAt = UTC(r.ExpiresAt)
    /\ HasExpiration(r) /\ NotAfter(r.ExpiresAt, now)

\* C21 (as claimed): with a ticker that keeps firing, sweeps that succeed and a
\* context that stays live, every stored record whose expiresAt has passed is
\* removed in the end, unless a Save gives it another expiry first.
C21_Original ==
    \A r \in JanitorPastes :
        [](jan.err = NoErr /\ jctx = "live")
           => ( Overdue(r)
                  ~> ~( Has(pastes, r.ID)
                        /\ Stored(pastes, r.ID).ExpiresAt = UTC(r.ExpiresAt) ) )

\* a GET of the view or the raw endpoint is answered in this step: the last
\* call on the store is its Get and the clock stands still
Fetches == resp'.handler \in {"view", "raw"} /\ op'.name = "Get" /\ now' = now

\* a POST /pastes is answered 303 in this step
Creates ==
    resp'.handler = "create" /\ resp'.status = 303 /\ op'.name = "Save" /\ now' = now

\* C30: the expiry-aware read of the HTTP layer.  A request for a stored paste
\* whose expiresAt is set and strictly before the current time is answered
\* not found, swept or not; a request for a stored paste with no expiry (and no
\* password) is answered with that paste at any time; and a request that only
\* reads leaves both buckets as they are.
C30_ExpiryAwareRead ==
    [][ ( Fetches /\ Has(pastes, resp'.id) )
           => LET p == Stored(pastes, resp'.id)
              IN  /\ ( HasExpiration(p) /\ After(now, p.ExpiresAt) )
                        => resp'.status = 404 /\ resp'.shown = <<>>
                  /\ ( ~HasExpiration(p) /\ p.PasswordHash = <<>> )
                        => \/ resp'.status = 200 /\ resp'.shown = <<p>>
                           \/ resp'.status = 304 /\ resp'.inm # <<>>
                  /\ UNCHANGED <<pastes, expires>> ]_vars

\* the view of a paste that is still stored and indexed, but whose expiry lies
\* before the current time, was answered not found
C30_Witness ==
    /\ resp.handler = "view" /\ resp.status = 404
    /\ Has(pastes, resp.id) /\ KeysOf(expires, resp.id) # {}
    /\ After(now, Stored(pastes, resp.id).ExpiresAt)

\* C27 (as claimed): a POST /pastes that is answered 303 names in its Location
\* the id of a stored paste; and as long as that paste is stored and not
\* expired, a GET of the location is answered 200 and a plain GET of its raw
\* endpoint is answered 200 with exactly the posted content as body.
C27_Original ==
    [][ /\ Creates => Has(pastes', resp'.location[1])
        /\ ( /\ Fetches /\ resp'.inm = <<>>
             /\ Has(posted, resp'.id) /\ Has(pastes, resp'.id)
             /\ Stored(pastes, resp'.id).PasswordHash = <<>>
             /\ ~( HasExpiration(Stored(pastes, resp'.id))
                   /\ After(now, Stored(pastes, resp'.id).ExpiresAt) ) )
              => /\ resp'.status = 200
                 /\ resp'.handler = "raw" => resp'.body = <<posted[resp'.id]>> ]_vars

\* a GET of the view, the raw or the QR endpoint is answered in this step
Reads == resp'.handler \in {"view", "raw", "qr"} /\ op'.name = "Get" /\ now' = now

\* the paste under the id is stored with a password hash
Protected(id) == Has(pastes, id) /\ Stored(pastes, id).PasswordHash # <<>>

\* the paste under the id is stored and past its expiry
Lapsed(id) ==
    HasExpiration(Stored(pastes, id)) /\ After(now, Stored(pastes, id).ExpiresAt)

\* the request that is answered carried the auth cookie signed for its id
Carries == resp'.cookie = <<[name |-> resp'.id, value |-> signValue(resp'.id)]>>

\* C28: for a password-protected paste, a request to the view, raw or QR
\* endpoint without the signed auth cookie for its id gets nothing of the
\* paste: raw and QR answer not found, and view shows the password form (not
\* found once the paste has expired).  The
\* cookie is set only by a POST /p/{id} whose password verifies against the
\* stored hash, and it is the cookie signed for that id; a POST with a wrong
\* password is answered 401 and sets no cookie.
C28_CookieGuardsPaste ==
    [][ /\ ( Reads /\ Protected(resp'.id) /\ ~Carries )
              => /\ resp'.shown = <<>> /\ resp'.body = <<>>
                 /\ resp'.handler = "view"
                       => IF Lapsed(resp'.id)
                          THEN resp'.status = 404
                          ELSE resp'.status = 200 /\ resp'.page = "password"
                 /\ resp'.handler \in {"raw", "qr"} => resp'.status = 404
        /\ ( jar' # jar \/ ( resp' # resp /\ resp'.setCookie # <<>> ) )
              => \E id \in TxIds, pw \in Passwords :
                    /\ handlePassword(id, pw)
                    /\ Protected(id)
                    /\ VerifyPassword(Stored(pastes, id).PasswordHash, pw).ok
                    /\ resp'.setCookie = <<[name |-> id, value |-> signValue(id)]>>
                    /\ jar' = jar \cup {[name |-> id, value |-> signValue(id)]}
        /\ \A id \in TxIds, pw \in Passwords :
              ( /\ handlePassword(id, pw)
                /\ Protected(id)
                /\ ~Lapsed(id)
                /\ ~VerifyPassword(Stored(pastes, id).PasswordHash, pw).ok )
                 => resp'.status = 401 /\ resp'.setCookie = <<>> /\ jar' = jar ]_vars

\* a request for the raw content of a password-protected paste, carrying a
\* cookie named for the id whose value the server did not sign, was answered
\* not found, although the signed cookie for that id has been issued
C28_Witness ==
    /\ resp.handler = "raw" /\ resp.status = 404
    /\ Protected(resp.id)
    /\ resp.cookie = <<[name |-> resp.id, value |-> Forged]>>
    /\ [name |-> resp.id, value |-> signValue(resp.id)] \in jar

\* the requests of one instant that the limiter filed under the key e, in order
RunOf(e) == SelectSeq(arrivals, LAMBDA a : ClientKey(a.key) = e)

\* of the requests of the run exactly the first b were let through
FirstPass(run, b) == \A i \in 1 .. Len(run) : run[i].ok <=> i <= b

\* the step asks the limiter about one more request: a request it lets
\* through reaches the handler, and one it refuses is answered 429 and changes
\* nothing of the store
Refusal ==
    arrivals' # arrivals
       => LET a == arrivals'[Len(arrivals')]
          IN  /\ a.ok => resp'.handler = "create"
              /\ ~a.ok => /\ resp'.handler = "ratelimit" /\ resp'.status = 429
                          /\ UNCHANGED <<boltVars, posted>>

\* C29 (as claimed): with a rate limiter of burst b, of the requests of one
\* client key that arrive at one instant exactly the first b reach the
\* handler, whatever other keys send in between, and every further one is
\* answered 429 without reaching the handler or the store.  (Client keys are
\* taken as the limiter files them: the empty key counts as "unknown".)
C29_Original ==
    [][ /\ Refusal
        /\ \A e \in { ClientKey(k) : k \in Keys } : FirstPass(RunOf(e)', rl'.burst) ]_vars

\* C29 (amended): the same, for the requests of an instant at whose first
\* request the bucket of the key is full: the limiter holds none for the key,
\* or the key has been idle long enough to refill it.
C29_FullBucketBurst ==
    [][ /\ Refusal
        /\ \A e \in { ClientKey(k) : k \in Keys } :
              ( RunOf(e)' # <<>> /\ RunOf(e)'[1].tokens = rl'.burst )
                 => FirstPass(RunOf(e)', rl'.burst) ]_vars

\* a limiter of burst 2 found the bucket of a key full, let its first two
\* requests of the instant through and refused the third, while a request of
\* another key in between was let through
C29_Witness ==
    /\ ~rl.nil /\ rl.burst = 2
    /\ Len(RunOf("unknown")) = 3 /\ RunOf("unknown")[1].tokens = 2
    /\ ~RunOf("unknown")[3].ok
    /\ resp.status = 429
    /\ \E i \in 1 .. Len(arrivals) : arrivals[i].key = "1.2.3.4" /\ arrivals[i].ok

\* C31 (as claimed): the read policy and the sweep agree on when a paste is
\* expired.  At every time, a stored paste that DeleteExpired called with the
\* current time would remove is reported not found by fetchPaste at that time,
\* also when its expiresAt is the current time.
C31_Original ==
    \A id \in DOMAIN pastes :
       ~Has(DeleteExpiredTx(pastes, expires, UTC(now)).pastes, id)
          => fetchPaste(GetTx(pastes, id), now).err = ErrNotFound

\* C32 (as claimed): every POST /pastes that is answered 303 creates a new
\* record: the id it was given is the id of no record in the store, and every
\* record that was in the store is still there as it was.
C32_Original ==
    [][ Creates
           => /\ ~Has(pastes, resp'.location[1])
              /\ \A id \in DOMAIN pastes : Has(pastes', id) /\ pastes'[id] = pastes[id]
      ]_vars

\* the expiry of a record is unset or later than the cutoff of a sweep
Outlives(r, c) == ~HasExpiration(r) \/ After(r.ExpiresAt, c)
\* the step commits the transaction of the janitor's DeleteExpired
SweepCommits == writer = Janitor /\ jan.inflight = 1 /\ jan'.inflight = 0 /\ jan'.err = NoErr

\* the record is in the buckets with the fields it was saved with and with
\* exactly its index entry
Kept(pb, eb, r) ==
    /\ Has(pb, r.ID)
    /\ SamePaste(Stored(pb, r.ID), r)
    /\ KeysOf(eb, r.ID) = IF HasExpiration(r) THEN {expireKey(r.ExpiresAt, r.ID)} ELSE {}

\* C33 (as claimed): a Save of a record whose expiry is unset or later than c
\* and a DeleteExpired(c) that run side by side leave the record present with
\* its saved fields and its index entry, in whichever order they commit.  A
\* Save that commits while the sweep waits for the writer lock stores the
\* record as it was given, the sweep that commits leaves every stored record
\* that outlives its cutoff as it was, and a Save that waited for the sweep
\* stores the record as it was given in the buckets the sweep left.
C33_Original ==
    [][ /\ \A p \in Procs :
              ( /\ Ends(p) /\ procs[p].name = "Save" /\ op'.err = NoErr
                /\ jan.inflight = 1 /\ Outlives(procs[p].arg[1], jan.cutoff[1]) )
              => Kept(pastes', expires', procs[p].arg[1])
        /\ SweepCommits
              => /\ \A id \in DOMAIN pastes :
                       Outlives(Stored(pastes, id), jan.cutoff[1])
                          => /\ Has(pastes', id) /\ pastes'[id] = pastes[id]
                             /\ KeysOf(expires', id) = KeysOf(expires, id)
                 /\ \A p \in Procs :
                       ( /\ procs[p].pc = "blocked" /\ procs[p].name = "Save"
                         /\ Outlives(procs[p].arg[1], jan.cutoff[1]) )
                       => LET r == procs[p].arg[1]
                              after == SaveTx(pastes', expires', r)
                          IN  Kept(after.pastes, after.expires, r)
      ]_vars

\* the index entries of an id: those whose key ends in the id or that name it
IndexOf(eb, id) == { k \in DOMAIN eb : k[2] = id \/ eb[k] = id }
\* a step leaves an id as it was in the boltstore and in the sqlitestore
Untouched(id) ==
    /\ Has(pastes', id) <=> Has(pastes, id)
    /\ Has(pastes, id) => pastes'[id] = pastes[id]
    /\ IndexOf(expires', id) = IndexOf(expires, id)
    /\ \A k \in IndexOf(expires, id) : expires'[k] = expires[k]
    /\ Has(rows', id) <=> Has(rows, id)
    /\ Has(rows, id) => rows'[id] = rows[id]

\* C34: Save(record) and Delete(id) change only the named id.  Whether the call
\* succeeds or fails, on the boltstore and on the sqlitestore, the primary
\* record and the index entries of every other id are after the call what they
\* were before it.
C34_OnlyNamedId ==
    [][ op'.name \in {"Save", "Delete"}
           => \A id \in Ids : id # op'.id => Untouched(id) ]_vars

\* C34 witness: a Save has replaced a record that had an expiry, taking its old
\* index entry away, while the other id is stored with an index entry of its
\* own in the boltstore and with a row in the sqlitestore
C34_Witness ==
    /\ op.name = "Save" /\ op.err = NoErr
    /\ op.prev # <<>> /\ ~IsZero(op.prev[1])
    /\ \E id \in Ids : /\ id # op.id
                       /\ Has(pastes, id) /\ Has(rows, id)
                       /\ KeysOf(expires, id) # {}
                       /\ Stored(pastes, id).ExpiresAt = op.prev[1]

\* the expire choice of a POST: the default when the form has none
Chosen(e) == IF e = "" THEN defaultExpire ELSE e
\* the POSTs the server turns down: a form it cannot parse, no content, content
\* of more bytes than the configured maximum, a syntax outside the whitelist,
\* an expire value it does not know
Rejected(f, e) ==
    \/ f.parseErr
    \/ f.content = <<>>
    \/ Len(f.content) > MaxBytes
    \/ f.syntax \notin syntaxWhitelist
    \/ Chosen(e) \notin {"10m", "7d", "never"}

\* C35: a POST /pastes that is rejected answers 400 and saves nothing; an
\* accepted one is answered 303 and saves exactly one record, under the id it
\* was given: its size is the byte length of the submitted content, its
\* createdAt the time of the request, and its expiresAt is createdAt plus the
\* duration of the expire choice, or unset for "never".
C35_CreateValidates ==
    [][ \A f \in OpenForms, e \in Expires, id \in TxIds :
           ( resp'.handler = "create"
             /\ handleCreate(f.parseErr, f.content, f.syntax, e, f.password, id) )
           => IF Rejected(f, e)
              THEN resp'.status = 400 /\ UNCHANGED <<pastes, expires>>
              ELSE /\ resp'.status = 303
                   /\ DOMAIN pastes' = DOMAIN pastes \cup {id}
                   /\ \A other \in DOMAIN pastes \ {id} : pastes'[other] = pastes[other]
                   /\ LET r == Stored(pastes', id)
                      IN  /\ r.Size = Len(f.content)
                          /\ r.CreatedAt.ns = now.ns
                          /\ IF Chosen(e) = "never"
                             THEN ~HasExpiration(r)
                             ELSE /\ HasExpiration(r)
                                  /\ r.ExpiresAt.ns = r.CreatedAt.ns + expireMap[Chosen(e)]
      ]_vars

\* C35 witness: a POST with content of exactly the maximum and no expire choice
\* has saved a record that expires after the default duration, next to a
\* record of the other id, and a later POST was turned down with 400
C35_Witness ==
    /\ resp.handler = "create" /\ resp.status = 400
    /\ \E id \in DOMAIN pastes :
          /\ Stored(pastes, id).Size = MaxBytes
          /\ Stored(pastes, id).ExpiresAt.ns =
                Stored(pastes, id).CreatedAt.ns + expireMap[defaultExpire]
    /\ \E id \in DOMAIN pastes : ~HasExpiration(Stored(pastes, id))

\* ------------------------------------------------------------------ Open
\* how a call of Open goes: bolt.Open or sql.Open fails, the database is
\* opened and the creation of the buckets or of the schema fails, or both
\* succeed
OpenOutcomes == {"open fails", "init fails", "ok"}
ErrOpenBolt == "open bolt db"
ErrCreateBucket == "create paste bucket"
ErrOpenSqlite == "open sqlite"
ErrApplySchema == "apply schema"
\* the *Store that Open returns next to a nil error
TheStore == <<"store">>

\* boltstore.Open that returns the error of the buckets and leaves the bolt.DB
\* open
OpenLeaks(outcome) ==
    /\ ~boltOpen
    /\ boltOpen' = (outcome # "open fails")
    /\ op' = IF outcome = "open fails" THEN Failed("Open", "none", ErrOpenBolt)
             ELSE IF outcome = "init fails" THEN Failed("Open", "none", ErrCreateBucket)
             ELSE Call("Open", "none", <<>>, <<>>, <<>>, <<>>, NoErr, TheStore, 0)
    /\ UNCHANGED <<pastes, expires, writer, work, procs>>

\* boltstore.Open, called by a process that does not hold the file: bolt.Open,
\* then the transaction that creates the two buckets; when it fails the bolt.DB
\* is closed and the store returned is nil.  The buckets keep what the file has.
Open(outcome) ==
    /\ ~boltOpen
    /\ IF outcome = "open fails"
       THEN /\ op' = Failed("Open", "none", ErrOpenBolt)
            /\ UNCHANGED boltOpen
       ELSE IF outcome = "init fails"
       THEN /\ boltOpen' = FALSE       \* db.Close()
            /\ op' = Failed("Open", "none", ErrCreateBucket)
       ELSE /\ boltOpen' = TRUE
            /\ op' = Call("Open", "none", <<>>, <<>>, <<>>, <<>>, NoErr, TheStore, 0)
    /\ UNCHANGED <<pastes, expires, writer, work, procs>>

\* sqlitestore.Open: sql.Open, then initialize, which applies the schema; when
\* it fails the sql.DB is closed and the store returned is nil
SqlOpen(outcome) ==
    /\ ~sqlOpen
    /\ IF outcome = "open fails"
       THEN /\ sqlOp' = Ret(ErrOpenSqlite, <<>>, 0)
            /\ UNCHANGED sqlOpen
       ELSE IF outcome = "init fails"
       THEN /\ sqlOpen' = FALSE        \* db.Close()
            /\ sqlOp' = Ret(ErrApplySchema, <<>>, 0)
       ELSE /\ sqlOpen' = TRUE
            /\ sqlOp' = Ret(NoErr, TheStore, 0)
    /\ UNCHANGED rows

\* a process that opens the boltstore and the sqlitestore, uses the stores it
\* holds and closes them, to open them again
OnlySql == UNCHANGED <<boltVars, memVars, callerVars>>
BoltOpen(outcome) == Open(outcome) /\ OnlyBolt
SqliteOpen(outcome) == SqlOpen(outcome) /\ OnlySql
BoltClose == boltOpen /\ Close("store") /\ OnlyBolt
SqliteClose == sqlOpen /\ SqlClose("store") /\ OnlySql
HeldSave(ptr) == boltOpen /\ sqlOpen /\ LifeSave("live", ptr)
HeldDelete(id) == boltOpen /\ sqlOpen /\ LifeDelete("live", id)

InitOpen ==
    /\ pastes = EmptyBucket
    /\ expires = EmptyBucket
    /\ op = Call("", "none", <<>>, <<>>, <<>>, <<>>, NoErr, <<>>, 0)
    /\ boltOpen = FALSE
    /\ writer = NoProc
    /\ work = <<>>
    /\ procs = [p \in Procs |-> Idle]
    /\ rows = EmptyBucket
    /\ sqlOpen = FALSE
    /\ sqlOp = Ret(NoErr, <<>>, 0)
    /\ mem = EmptyBucket
    /\ memOp = Ret(NoErr, <<>>, 0)
    /\ jan = JanOff
    /\ jctx = "live"
    /\ tickC = 0
    /\ now = Epoch
    /\ jlog = NoLog
    /\ resp = NoResponse
    /\ jar = {}
    /\ posted = EmptyBucket
    /\ rl = NoLimiter
    /\ arrivals = <<>>

NextOpen ==
    \/ \E outcome \in OpenOutcomes : BoltOpen(outcome)
    \/ \E outcome \in OpenOutcomes : SqliteOpen(outcome)
    \/ \E p \in BackendPastes : HeldSave(<<p>>)
    \/ \E id \in Ids : HeldDelete(id)
    \/ BoltClose
    \/ SqliteClose

SpecOpen == InitOpen /\ [][NextOpen]_vars

\* C36: opening a store never leaks the underlying resource.  When the
\* creation of the buckets or of the schema fails after the database was
\* opened, Open returns the error and no store, and the database is closed when
\* it returns; so is it after every Open that returns an error, and an Open
\* that returns no error returns a store whose database is open.
C36_OpenReleases ==
    [][ /\ \A outcome \in OpenOutcomes :
              BoltOpen(outcome)
              => /\ outcome = "init fails"
                       => op'.err # NoErr /\ op'.out = <<>> /\ ~boltOpen'
                 /\ op'.err # NoErr => op'.out = <<>> /\ ~boltOpen'
                 /\ op'.err = NoErr => op'.out = TheStore /\ boltOpen'
        /\ \A outcome \in OpenOutcomes :
              SqliteOpen(outcome)
              => /\ outcome = "init fails"
                       => sqlOp'.err # NoErr /\ sqlOp'.out = <<>> /\ ~sqlOpen'
                 /\ sqlOp'.err # NoErr => sqlOp'.out = <<>> /\ ~sqlOpen'
                 /\ sqlOp'.err = NoErr => sqlOp'.out = TheStore /\ sqlOpen'
      ]_vars

\* C36 witness: the file holds a record, the boltstore was closed, and the Open
\* that followed failed on its buckets: the bolt.DB is closed again and the
\* record is still in the file, while the sqlitestore is open
C36_Witness ==
    /\ op.name = "Open" /\ op.err = ErrCreateBucket /\ ~boltOpen
    /\ DOMAIN pastes # {}
    /\ sqlOpen

====
